---------------------------- MODULE Spec2Model ----------------------------
(***************************************************************************)
(* Model of the weather-ensemble backend (backend/app): the weighted       *)
(* aggregator and the categorical resolver of services/ensemble.py, and    *)
(* the snapshot recorder, the observation ingestion and the observation    *)
(* matcher of services/accuracy.py over the tables of models/database.py.  *)
(*                                                                         *)
(* Conventions                                                             *)
(*  - Python's Optional[x] is a sequence of length at most one: None is    *)
(*    <<>> and a present value v is <<v>>.                                 *)
(*  - A dict keyed by source name is a function whose domain is a subset   *)
(*    of the configured sources; its items are iterated in the order of    *)
(*    settings.weather_models, the order in which fetch_all_models fills   *)
(*    model_data.                                                          *)
(*  - Floating point numbers are exact rationals [n, d] with d > 0: the    *)
(*    model states what the arithmetic computes over the reals, and does   *)
(*    not model IEEE-754 rounding.  Weights are in tenths (1.2 is 12).     *)
(*  - Instants are whole minutes.                                          *)
(***************************************************************************)
EXTENDS Integers, Sequences, FiniteSets, TLC

VARIABLES
    values,        \* _weighted_average: the source -> Optional value mapping
    weights,       \* _weighted_average: Optional weight table
    aggregate,     \* _weighted_average: the returned (average, spread), or pending
    weather_codes, \* resolver: the per-source Optional weather codes of one index
    weather_code,  \* resolver: the resolved code, or pending
    now,           \* datetime.utcnow(), in minutes
    snapshots,     \* table forecast_snapshots: the durable rows, in insertion order
    observations,  \* table observations: the durable rows, in insertion order
    rec,           \* the store_forecast_snapshot call and its session
    ing,           \* the fetch_and_store_observations calls and their sessions
    accuracy,      \* the last calculate_accuracy_metrics call: its query and matches
    badge,         \* the last get_accuracy_badge call: its arguments and its badge
    spread,        \* _calculate_confidence: the spread
    metric_type,   \* _calculate_confidence: the metric type
    confidence,    \* _calculate_confidence: the returned confidence, or pending
    predicted,     \* _calculate_accuracy_score: the forecasted value
    actual,        \* _calculate_accuracy_score: the observed value
    tolerance,     \* _calculate_accuracy_score: the tolerance
    score,         \* _calculate_accuracy_score: the returned score, or pending
    fetch,         \* the fetch_all_models call: its tasks and its result
    request        \* the forecast or comparison request: its steps and its answer

aggVars == <<values, weights, aggregate>>
resVars == <<weather_codes, weather_code>>
confVars == <<spread, metric_type, confidence>>
scoreVars == <<predicted, actual, tolerance, score>>
pureVars == <<values, weights, aggregate, weather_codes, weather_code,
              spread, metric_type, confidence,
              predicted, actual, tolerance, score>>
storeVars == <<now, snapshots, observations, rec, ing, accuracy, badge>>
fcVars == <<fetch, request>>
vars == <<values, weights, aggregate, weather_codes, weather_code,
          now, snapshots, observations, rec, ing, accuracy, badge,
          spread, metric_type, confidence,
          predicted, actual, tolerance, score, fetch, request>>

---------------------------------------------------------------------------
(* Bounds of the model *)

\* How many of the configured sources report in a modelled request.
NumSources == 3

\* The length of a source's hourly series that ends before the last lead hours.
ShortHorizon == 100

\* The length of an ensemble hourly series that holds the first lead hour only.
ShortEnsemble == 30

\* The most time steps one historical payload holds.
MaxObsSteps == 2

\* The most fetch_and_store_observations calls of a run of successive calls.
MaxIngestCalls == 2

---------------------------------------------------------------------------
(* Optional values and rationals *)

None == <<>>
Some(v) == <<v>>
IsNone(o) == o = <<>>
Get(o) == o[1]

\* A call that has not returned yet holds no result.
Pending == <<>>

Abs(x) == IF x < 0 THEN -x ELSE x

RECURSIVE GCD(_, _)
GCD(a, b) == IF b = 0 THEN a ELSE GCD(b, a % b)

\* The rational n/d in lowest terms with a positive denominator.
Rat(n, d) ==
    LET s == IF d < 0 THEN -1 ELSE 1
        g == GCD(Abs(n), Abs(d))
    IN  [n |-> (s * n) \div g, d |-> (s * d) \div g]

RatAdd(a, b) == Rat(a.n * b.d + b.n * a.d, a.d * b.d)
RatSub(a, b) == Rat(a.n * b.d - b.n * a.d, a.d * b.d)
RatMul(a, b) == Rat(a.n * b.n, a.d * b.d)
RatDiv(a, b) == Rat(a.n * b.d, a.d * b.n)
RatLe(a, b) == a.n * b.d <= b.n * a.d
RatEq(a, b) == a.n * b.d = b.n * a.d
RatAbs(a) == Rat(Abs(a.n), a.d)
FromInt(i) == Rat(i, 1)

RECURSIVE RatSum(_)
RatSum(s) == IF s = <<>> THEN FromInt(0) ELSE RatAdd(Head(s), RatSum(Tail(s)))

---------------------------------------------------------------------------
(* Configuration: config.py *)

\* settings.weather_models, in order.
AllModels ==
    << "gfs_seamless", "ecmwf_ifs04", "icon_seamless",
       "gem_seamless", "jma_seamless", "meteofrance_seamless" >>

\* The sources of a modelled request: the first NumSources configured ones.
weather_models == SubSeq(AllModels, 1, NumSources)

ModelSet == {weather_models[i] : i \in 1..Len(weather_models)}

\* settings.default_model_weights, in tenths.
default_model_weights ==
    [m \in {AllModels[i] : i \in 1..Len(AllModels)} |->
        CASE m = "ecmwf_ifs04" -> 12
          [] m \in {"gem_seamless", "jma_seamless"} -> 9
          [] OTHER -> 10]

\* weights.get(model, 1.0): the weight of a source the table does not list,
\* in tenths.
DefaultWeight == 10

\* dict.items(): the keys of a per-source dict in insertion order.
Items(dict) == SelectSeq(weather_models, LAMBDA m : m \in DOMAIN dict)

---------------------------------------------------------------------------
(* EnsembleCalculator._weighted_average *)

\* 0/0: what numpy returns for a division of zero by zero.
NaN == [n |-> 0, d |-> 0]

\* The sources with a present value, in dict order (the loop that fills
\* valid_values and valid_weights).
ValidModels(vals) == SelectSeq(Items(vals), LAMBDA m : ~IsNone(vals[m]))

ValidValues(vals) ==
    LET valid == ValidModels(vals)
    IN  [i \in 1..Len(valid) |-> FromInt(Get(vals[valid[i]]))]

\* As ValidWeights, but every source weighs 1.0 whatever the table says.
ValidWeightsIgnoringTable(vals, table) ==
    [i \in 1..Len(ValidModels(vals)) |-> FromInt(DefaultWeight)]

\* valid_weights.append(weights.get(model, 1.0))
ValidWeights(vals, table) ==
    LET valid == ValidModels(vals)
    IN  [i \in 1..Len(valid) |->
            FromInt(IF valid[i] \in DOMAIN table THEN table[valid[i]]
                    ELSE DefaultWeight)]

\* weights_arr = weights_arr / weights_arr.sum()
Normalize(weights_arr) ==
    LET total == RatSum(weights_arr)
    IN  [i \in 1..Len(weights_arr) |-> RatDiv(weights_arr[i], total)]

\* As NpAverage, but np.mean of the products values * weights.
NpMeanOfProducts(values_arr, weights_arr) ==
    RatDiv(RatSum([i \in 1..Len(values_arr) |->
                RatMul(values_arr[i], weights_arr[i])]),
           FromInt(Len(values_arr)))

\* np.average(values_arr, weights=weights_arr):
\* sum(values * weights) / sum(weights)
NpAverage(values_arr, weights_arr) ==
    RatDiv(RatSum([i \in 1..Len(values_arr) |->
                RatMul(values_arr[i], weights_arr[i])]),
           RatSum(weights_arr))

\* np.std(values_arr) squared: the population variance, divisor n.
\* As NpStdSq with the sample divisor n - 1 (np.std(..., ddof=1)).
NpStdSqSample(values_arr) ==
    LET n == FromInt(Len(values_arr))
        ddof == FromInt(IF Len(values_arr) > 1 THEN Len(values_arr) - 1 ELSE 1)
        plain_mean == RatDiv(RatSum(values_arr), n)
    IN  RatDiv(RatSum([i \in 1..Len(values_arr) |->
                    LET dev == RatSub(values_arr[i], plain_mean)
                    IN  RatMul(dev, dev)]),
               ddof)

\* np.std(values_arr), squared: the population variance.
NpStdSq(values_arr) ==
    LET n == FromInt(Len(values_arr))
        plain_mean == RatDiv(RatSum(values_arr), n)
    IN  RatDiv(RatSum([i \in 1..Len(values_arr) |->
                    LET dev == RatSub(values_arr[i], plain_mean)
                    IN  RatMul(dev, dev)]),
               n)

\* As _weighted_average without the "if not valid_values" return: the
\* division by the zero weight sum gives nan.
WeightedAverageNoEmptyGuard(vals, wts) ==
    LET table == IF IsNone(wts) THEN default_model_weights ELSE Get(wts)
        valid_values == ValidValues(vals)
        valid_weights == ValidWeights(vals, table)
    IN  IF Len(valid_values) = 0
        THEN [mean |-> NaN, spreadSq |-> NaN]
        ELSE [mean |-> NpAverage(valid_values, Normalize(valid_weights)),
              spreadSq |-> NpStdSq(valid_values)]

\* The returned pair (average, spread).  The spread is held squared
\* (np.std is the square root of the population variance).
_weighted_average(vals, wts) ==
    LET table == IF IsNone(wts) THEN default_model_weights ELSE Get(wts)
        valid_values == ValidValues(vals)
        valid_weights == ValidWeights(vals, table)
    IN  IF Len(valid_values) = 0
        THEN [mean |-> FromInt(0), spreadSq |-> FromInt(0)]
        ELSE [mean |-> NpAverage(valid_values, Normalize(valid_weights)),
              spreadSq |-> NpStdSq(valid_values)]

---------------------------------------------------------------------------
(* EnsembleCalculator._calculate_confidence *)

\* typical_spreads
typical_spreads ==
    [t \in {"temperature", "precipitation", "wind_speed"} |->
        IF t = "temperature" THEN 3 ELSE 5]

\* typical_spreads.get(metric_type, 3.0)
Typical(type) ==
    IF type \in DOMAIN typical_spreads THEN typical_spreads[type] ELSE 3

\* np.exp is not rational: a float of this function is one of
\*   Num(x)      the number x (0, 100, and the ints of max and min),
\*   ScaledE(x)  the number 100 * e^x, for an exponent x other than 0,
\*   Inf         the float inf.
Num(x) == [kind |-> "num", x |-> x]
ScaledE(x) == [kind |-> "exp", x |-> x]
Inf == [kind |-> "inf", x |-> FromInt(0)]

\* The exponents from which a double's e^x is 0.0, and from which it is inf.
ExpUnderflow == -746
ExpOverflow == 710

\* 100 * np.exp(x)
HundredExp(x) ==
    IF RatLe(x, FromInt(ExpUnderflow)) THEN Num(FromInt(0))
    ELSE IF RatLe(FromInt(ExpOverflow), x) THEN Inf
    ELSE IF x.n = 0 THEN Num(FromInt(100))
    ELSE ScaledE(x)

\* The place of a float among 0 < 100 * e^x (x < 0) < 100 < 100 * e^x
\* (x > 0) < inf.
Rank(a) ==
    CASE a.kind = "inf" -> 4
      [] a.kind = "exp" -> IF a.x.n < 0 THEN 1 ELSE 3
      [] a.kind = "num" -> IF a.x.n <= 0 THEN 0 ELSE 2

\* a < b, for the floats of this function (e^x grows with x)
FloatLt(a, b) ==
    \/ Rank(a) < Rank(b)
    \/ Rank(a) = Rank(b) /\ a.kind = "exp" /\ ~RatLe(b.x, a.x)

\* min(a, b) and max(a, b) of Python: the first argument unless the second
\* is smaller (larger).
PyMin(a, b) == IF FloatLt(b, a) THEN b ELSE a
PyMax(a, b) == IF FloatLt(a, b) THEN b ELSE a

\* As Exponent with the sign of the spread kept.
ExponentGrowing(s, type) == RatDiv(s, FromInt(Typical(type)))

\* -spread / typical
Exponent(s, type) == RatDiv(RatSub(FromInt(0), s), FromInt(Typical(type)))

\* As _calculate_confidence without max(0, min(100, ...)).
ConfidenceUnclamped(s, type) == HundredExp(Exponent(s, type))

_calculate_confidence(s, type) ==
    PyMax(Num(FromInt(0)),
          PyMin(Num(FromInt(100)), HundredExp(Exponent(s, type))))

---------------------------------------------------------------------------
(* The categorical resolver: get_ensemble_forecast, hourly and daily *)

\* The slots of a fresh CPython set (PySet_MINSIZE is 8; the table is not
\* resized while it holds fewer than 5 keys).
SetSlots == 0..7

\* set_add_entry for an int key (hash(k) = k): the first probe is
\* hash & mask, each further one (i * 5 + 1 + perturb) & mask after
\* perturb >>= 5; the key goes to the first unused slot.
RECURSIVE SetProbe(_, _, _, _)
SetProbe(table, key, i, perturb) ==
    IF IsNone(table[i])
    THEN [table EXCEPT ![i] = Some(key)]
    ELSE IF Get(table[i]) = key
    THEN table
    ELSE SetProbe(table, key, (i * 5 + 1 + (perturb \div 32)) % 8, perturb \div 32)

SetAdd(table, key) == SetProbe(table, key, key % 8, key)

\* set(valid_codes): the keys added in list order.
RECURSIVE SetOf(_)
SetOf(list) ==
    IF list = <<>>
    THEN [i \in SetSlots |-> None]
    ELSE SetAdd(SetOf(SubSeq(list, 1, Len(list) - 1)), list[Len(list)])

\* Iterating a set visits its table slots in index order.
RECURSIVE SetIter(_, _)
SetIter(table, i) ==
    IF i > 7 THEN <<>>
    ELSE (IF IsNone(table[i]) THEN <<>> ELSE <<Get(table[i])>>) \o SetIter(table, i + 1)

\* list.count
Count(list, x) == Cardinality({i \in 1..Len(list) : list[i] = x})

\* max(iterable, key=...): the first item, in iteration order, whose key is
\* the largest.
RECURSIVE MaxByKey(_, _)
MaxByKey(iter, list) ==
    IF Len(iter) = 1 THEN iter[1]
    ELSE LET best == MaxByKey(SubSeq(iter, 1, Len(iter) - 1), list)
             last == iter[Len(iter)]
         IN  IF Count(list, last) > Count(list, best) THEN last ELSE best

\* valid_codes = [v for v in weather_codes.values() if v is not None]
\* weather_code = int(max(set(valid_codes), key=valid_codes.count))
\*                if valid_codes else 0
ResolveWeatherCode(codes) ==
    LET present == SelectSeq(Items(codes), LAMBDA m : ~IsNone(codes[m]))
        valid_codes == [i \in 1..Len(present) |-> Get(codes[present[i]])]
    IN  IF valid_codes = <<>> THEN 0
        ELSE MaxByKey(SetIter(SetOf(valid_codes), 0), valid_codes)

---------------------------------------------------------------------------
(* AccuracyService.store_forecast_snapshot *)

\* Location.id of the saved locations.
Locations == {1, 2}

\* lead_hours_to_store
LEAD_HOURS_TO_STORE == <<24, 48, 72, 120, 168>>

\* "forecast_days": 10 of fetch_forecast, in hourly steps.
ForecastHours == 240

\* hourly_times[:168] of get_ensemble_forecast: the longest ensemble series.
EnsembleHours == 168

HourlyFields == {"temperature_2m", "precipitation", "wind_speed_10m"}

\* The payload of one source is [hourly |-> Optional(h)], where h holds
\*   start: the instant of index 0 of its "time" list (one step is an hour),
\*   time: the length of the "time" list, or None without that key,
\*   one Optional length for each field list (None: the key is missing),
\*   horizon: the index from which the field lists hold null.
Hourly(start, len, temperature, horizon) ==
    Some([start |-> start, time |-> Some(len),
          temperature_2m |-> temperature, precipitation |-> Some(len),
          wind_speed_10m |-> Some(len), horizon |-> horizon])

FullPayload(start) ==
    [hourly |-> Hourly(start, ForecastHours, Some(ForecastHours), ForecastHours)]
NullTailPayload(start) ==
    [hourly |-> Hourly(start, ForecastHours, Some(ForecastHours), ShortHorizon)]
ShortPayload(start) ==
    [hourly |-> Hourly(start, ShortHorizon, Some(ShortHorizon), ShortHorizon)]
NoTemperaturePayload(start) ==
    [hourly |-> Hourly(start, ForecastHours, None, ForecastHours)]
NoHourlyPayload == [hourly |-> None]
\* Every list has its full length and holds null throughout.
NullPayload(start) ==
    [hourly |-> Hourly(start, ForecastHours, Some(ForecastHours), 0)]

\* The ensemble reading of a field at a time index of the ensemble series:
\* it changes from one day of the series to the next.
EnsembleReading(field, i) ==
    CASE field = "temperature" -> 20 + i \div 24
      [] field = "precipitation" -> i \div 24 - 1
      [] field = "wind_speed" -> 10 + i \div 24
      [] field = "confidence" -> 60 - i \div 24

\* How far the reading of a source lies from the ensemble reading.
SourceBias(m, field) ==
    LET src == CHOOSE j \in 1..Len(AllModels) : AllModels[j] = m
    IN  CASE field = "temperature_2m" -> <<2, -4, 0, 6, -2, 4>>[src]
          [] field = "precipitation" -> <<0, 1, 2, 3, 4, 5>>[src]
          [] field = "wind_speed_10m" -> <<3, 0, -3, 6, -6, 9>>[src]

\* The reading a source reports for a field at a time index.
SourceReading(m, field, i) ==
    LET ensemble_field == CASE field = "temperature_2m" -> "temperature"
                            [] field = "precipitation" -> "precipitation"
                            [] field = "wind_speed_10m" -> "wind_speed"
    IN  EnsembleReading(ensemble_field, i) + SourceBias(m, field)

\* reference = next(iter(model_data.values()))
Reference(model_data) == model_data[Items(model_data)[1]]

\* len(reference.get("hourly", {}).get("time", []))
HourlyTimesLen(payload) ==
    IF IsNone(payload.hourly) \/ IsNone(Get(payload.hourly).time) THEN 0
    ELSE Get(Get(payload.hourly).time)

\* datetime.fromisoformat(hourly_times[i]), in minutes
HourlyTime(payload, i) == Get(payload.hourly).start + 60 * i

\* len(hourly.get(field, [None]))
FieldLen(hourly, field) == IF IsNone(hourly[field]) THEN 1 ELSE Get(hourly[field])

\* hourly.get(field, [None])[i], for an index inside the list
FieldAt(m, hourly, field, i) ==
    IF IsNone(hourly[field]) \/ i >= hourly.horizon THEN None
    ELSE Some(SourceReading(m, field, i))

\* "if data and 'hourly' in data": the sources whose values are extracted.
WithHourly(model_data) == {m \in DOMAIN model_data : ~IsNone(model_data[m].hourly)}

\* Whether extracting the per-source values at a lead hour raises IndexError.
ExtractionRaises(model_data, lead) ==
    \E m \in WithHourly(model_data) : \E f \in HourlyFields :
        lead >= FieldLen(Get(model_data[m].hourly), f)

\* temp_by_model, precip_by_model or wind_by_model at a lead hour
ByModel(model_data, field, lead) ==
    [m \in WithHourly(model_data) |->
        FieldAt(m, Get(model_data[m].hourly), field, lead)]

\* ForecastSnapshot(...): the row of one lead hour
SnapshotRow(call, lead) ==
    [location_id |-> call.location_id,
     snapshot_time |-> call.now,
     target_time |-> HourlyTime(Reference(call.model_data), lead),
     lead_hours |-> lead,
     temperature_ensemble |-> Some(EnsembleReading("temperature", lead)),
     precipitation_ensemble |-> Some(EnsembleReading("precipitation", lead)),
     wind_speed_ensemble |-> Some(EnsembleReading("wind_speed", lead)),
     confidence_score |-> Some(EnsembleReading("confidence", lead)),
     temperature_by_model |-> ByModel(call.model_data, "temperature_2m", lead),
     precipitation_by_model |-> ByModel(call.model_data, "precipitation", lead),
     wind_speed_by_model |-> ByModel(call.model_data, "wind_speed_10m", lead)]

IdleRecorder ==
    [pc |-> "idle", k |-> 0, pending |-> <<>>, now |-> 0, location_id |-> 0,
     model_data |-> <<>>, ensemble_len |-> 0, calls |-> 0]

\* The call starts, when no earlier call is under way: now =
\* datetime.utcnow() and the reference source is taken;
\* next(iter({}.values())) raises StopIteration.
StartSnapshot(inp) ==
    /\ rec.pc # "loop"
    /\ rec' = [pc |-> IF DOMAIN inp.model_data = {} THEN "failed" ELSE "loop",
               k |-> 1, pending |-> <<>>, now |-> now,
               location_id |-> inp.location_id,
               model_data |-> inp.model_data,
               ensemble_len |-> inp.ensemble_len,
               calls |-> rec.calls + 1]
    /\ UNCHANGED <<now, snapshots, observations, ing, accuracy, badge, pureVars, fcVars>>

\* One iteration of "for lead_hours in lead_hours_to_store".  An exception
\* ends the call before its commit: the rows its session holds are dropped
\* with the session.
ProcessLead ==
    /\ rec.pc = "loop"
    /\ rec.k <= Len(LEAD_HOURS_TO_STORE)
    /\ LET lead == LEAD_HOURS_TO_STORE[rec.k]
       IN  rec' =
             IF lead >= HourlyTimesLen(Reference(rec.model_data))
             THEN [rec EXCEPT !.k = @ + 1]
             ELSE IF ExtractionRaises(rec.model_data, lead)
             THEN [rec EXCEPT !.pc = "failed", !.pending = <<>>]
             ELSE IF lead < rec.ensemble_len
             THEN [rec EXCEPT !.k = @ + 1,
                              !.pending = Append(@, SnapshotRow(rec, lead))]
             ELSE [rec EXCEPT !.k = @ + 1]
    /\ UNCHANGED <<now, snapshots, observations, ing, accuracy, badge, pureVars, fcVars>>

\* As CommitSnapshot would be reached with "await db.commit()" inside the
\* loop: every added row is durable as soon as its iteration ends.
CommitEachLead ==
    /\ rec.pc = "loop"
    /\ rec.pending # <<>> \/ rec.k > Len(LEAD_HOURS_TO_STORE)
    /\ snapshots' = snapshots \o rec.pending
    /\ rec' = [rec EXCEPT !.pending = <<>>,
                          !.pc = IF rec.k > Len(LEAD_HOURS_TO_STORE)
                                 THEN "done" ELSE "loop"]
    /\ UNCHANGED <<now, observations, ing, accuracy, badge, pureVars, fcVars>>

\* As CommitSnapshot would be if a row replaced the durable row of its
\* location, snapshot time and lead hour.
CommitSnapshotUpsert ==
    /\ rec.pc = "loop"
    /\ rec.k > Len(LEAD_HOURS_TO_STORE)
    /\ snapshots' =
          SelectSeq(snapshots, LAMBDA old :
              \A i \in 1..Len(rec.pending) :
                  \/ old.location_id # rec.pending[i].location_id
                  \/ old.snapshot_time # rec.pending[i].snapshot_time
                  \/ old.lead_hours # rec.pending[i].lead_hours)
          \o rec.pending
    /\ rec' = [rec EXCEPT !.pc = "done", !.pending = <<>>]
    /\ UNCHANGED <<now, observations, ing, accuracy, badge, pureVars, fcVars>>

\* await db.commit() after the loop: every row of the session becomes
\* durable in one transaction.
CommitSnapshot ==
    /\ rec.pc = "loop"
    /\ rec.k > Len(LEAD_HOURS_TO_STORE)
    /\ snapshots' = snapshots \o rec.pending
    /\ rec' = [rec EXCEPT !.pc = "done", !.pending = <<>>]
    /\ UNCHANGED <<now, observations, ing, accuracy, badge, pureVars, fcVars>>

---------------------------------------------------------------------------
(* AccuracyService.fetch_and_store_observations *)

\* The concurrent callers of fetch_and_store_observations, one session each.
Ingesters == {1, 2}

IdleIngester ==
    [pc |-> "idle", location_id |-> 0, historical |-> None, i |-> 0,
     pending |-> <<>>, calls |-> 0]

\* lst[i] if i < len(lst) else None, with the first index 1
AtOrNone(lst, i) == IF i <= Len(lst) THEN Some(lst[i]) ELSE None

\* Observation(...): the row of time step i of a payload's hourly section
ObservationRow(location_id, hourly, i) ==
    [location_id |-> location_id,
     observation_time |-> hourly.time[i],
     temperature |-> AtOrNone(hourly.temperature_2m, i),
     precipitation |-> AtOrNone(hourly.precipitation, i),
     wind_speed |-> AtOrNone(hourly.wind_speed_10m, i),
     weather_code |-> AtOrNone(hourly.weather_code, i)]

\* As Existing would answer if the SELECT never found a row.
ExistingNever(rows, location_id, obs_time) == {}

\* select(Observation).where(location_id == ..., observation_time == ...):
\* the indexes of the rows a session sees for a key.
Existing(rows, location_id, obs_time) ==
    {j \in 1..Len(rows) : /\ rows[j].location_id = location_id
                          /\ rows[j].observation_time = obs_time}

\* The call starts and the historical payload arrives; without a payload or
\* without its hourly section the call returns at once.
StartIngest(p, location_id, historical, max_calls) ==
    /\ ing[p].pc # "loop"
    /\ ing[p].calls < max_calls
    /\ ing' = [ing EXCEPT ![p] =
                 [pc |-> IF IsNone(historical) THEN "done" ELSE "loop",
                  location_id |-> location_id, historical |-> historical,
                  i |-> 1, pending |-> <<>>, calls |-> ing[p].calls + 1]]
    /\ UNCHANGED <<now, snapshots, observations, rec, accuracy, badge, pureVars, fcVars>>

\* One iteration of "for i, time_str in enumerate(times)": the SELECT sees
\* the durable rows and the rows its own session holds;
\* scalar_one_or_none() raises MultipleResultsFound on two rows, returns the
\* row on one ("continue") and None on none (the new row is added).
CheckAndAdd(p) ==
    /\ ing[p].pc = "loop"
    /\ ing[p].i <= Len(Get(ing[p].historical).time)
    /\ LET hourly == Get(ing[p].historical)
           obs_time == hourly.time[ing[p].i]
           existing == Existing(observations \o ing[p].pending,
                                ing[p].location_id, obs_time)
       IN  ing' = [ing EXCEPT ![p] =
                 IF Cardinality(existing) > 1
                 THEN [@ EXCEPT !.pc = "failed", !.pending = <<>>]
                 ELSE IF existing # {}
                 THEN [@ EXCEPT !.i = @ + 1]
                 ELSE [@ EXCEPT !.i = @ + 1,
                                !.pending = Append(@,
                                    ObservationRow(ing[p].location_id, hourly,
                                                   ing[p].i))]]
    /\ UNCHANGED <<now, snapshots, observations, rec, accuracy, badge, pureVars, fcVars>>

\* await db.commit(): the rows of the session become durable.
CommitIngest(p) ==
    /\ ing[p].pc = "loop"
    /\ ing[p].i > Len(Get(ing[p].historical).time)
    /\ observations' = observations \o ing[p].pending
    /\ ing' = [ing EXCEPT ![p] = [@ EXCEPT !.pc = "done", !.pending = <<>>]]
    /\ UNCHANGED <<now, snapshots, rec, accuracy, badge, pureVars, fcVars>>

---------------------------------------------------------------------------
(* AccuracyService._calculate_accuracy_score *)

\* max(0, x)
RatMax0(x) == IF x.n < 0 THEN FromInt(0) ELSE x

\* As Zone2 if the good zone ran from 100 at half the tolerance to 75.
Zone2FromHundred(error, tol) ==
    RatSub(FromInt(100),
           RatMul(RatDiv(RatSub(error, RatDiv(tol, FromInt(2))), tol), FromInt(50)))

\* 100.0 - (error / tolerance) * 25
Zone2(error, tol) ==
    RatSub(FromInt(100), RatMul(RatDiv(error, tol), FromInt(25)))

\* 75.0 - ((error - tolerance) / tolerance) * 50
Zone3(error, tol) ==
    RatSub(FromInt(75), RatMul(RatDiv(RatSub(error, tol), tol), FromInt(50)))

\* As Zone4 without the max(0, ...).
Zone4NoFloor(error, tol) ==
    RatSub(FromInt(25),
           RatMul(RatDiv(RatSub(error, RatMul(tol, FromInt(2))), tol),
                  FromInt(25)))

\* max(0, 25.0 - ((error - tolerance * 2) / tolerance) * 25)
Zone4(error, tol) ==
    RatMax0(RatSub(FromInt(25),
                   RatMul(RatDiv(RatSub(error, RatMul(tol, FromInt(2))), tol),
                          FromInt(25))))

_calculate_accuracy_score(pred, act, tol) ==
    LET error == RatAbs(RatSub(pred, act))
    IN  IF RatLe(error, RatMul(tol, Rat(1, 2))) THEN FromInt(100)
        ELSE IF RatLe(error, tol) THEN Zone2(error, tol)
        ELSE IF RatLe(error, RatMul(tol, FromInt(2))) THEN Zone3(error, tol)
        ELSE Zone4(error, tol)

---------------------------------------------------------------------------
(* AccuracyService.calculate_accuracy_metrics: the matching query *)

\* timedelta(days=1), in minutes
MinutesPerDay == 1440

\* OBSERVATION_MATCH_TOLERANCE_DAYS = 0.042
OBSERVATION_MATCH_TOLERANCE_DAYS == Rat(42, 1000)

\* julianday(t): days, as a fraction
julianday(t) == Rat(t, MinutesPerDay)

\* abs(julianday(target_time) - julianday(observation_time)) < 0.042
WithinTolerance(target_time, observation_time) ==
    LET diff == RatAbs(RatSub(julianday(target_time), julianday(observation_time)))
    IN  ~RatLe(OBSERVATION_MATCH_TOLERANCE_DAYS, diff)

\* As Selected would be with "if location_id is not None".
SelectedWhenNotNone(s, location_id, cutoff_date) ==
    /\ s.snapshot_time >= cutoff_date
    /\ ~IsNone(location_id) => s.location_id = Get(location_id)

\* .where(ForecastSnapshot.snapshot_time >= cutoff_date), and
\* "if location_id:" .where(ForecastSnapshot.location_id == location_id):
\* neither None nor 0 filters.
Selected(s, location_id, cutoff_date) ==
    /\ s.snapshot_time >= cutoff_date
    /\ (~IsNone(location_id) /\ Get(location_id) # 0) =>
          s.location_id = Get(location_id)

\* result.all(): the joined pairs, as indexes into the two tables
Matches(location_id, cutoff_date) ==
    {pair \in (1..Len(snapshots)) \X (1..Len(observations)) :
        LET s == snapshots[pair[1]]
            o == observations[pair[2]]
        IN  /\ s.location_id = o.location_id
            /\ WithinTolerance(s.target_time, o.observation_time)
            /\ Selected(s, location_id, cutoff_date)}

\* np.mean of the scores f[x] of the members x of a non-empty set S
RECURSIVE SumOver(_, _)
SumOver(S, f) ==
    IF S = {} THEN FromInt(0)
    ELSE LET x == CHOOSE x \in S : TRUE
         IN  RatAdd(f[x], SumOver(S \ {x}, f))

Mean(S, f) == RatDiv(SumOver(S, f), FromInt(Cardinality(S)))

\* As Round1 without the rounding.
Unrounded(x) == x

\* round(x, 1) of a score x >= 0: to the nearest tenth, a half to the even
\* tenth.
Round1(x) ==
    LET tenths == (10 * x.n) \div x.d
        rest == Rat(10 * x.n - tenths * x.d, x.d)
        up == \/ ~RatLe(rest, Rat(1, 2))
              \/ rest = Rat(1, 2) /\ tenths % 2 = 1
    IN  Rat(IF up THEN tenths + 1 ELSE tenths, 10)

\* temp_tolerance, precip_tolerance, wind_tolerance
temp_tolerance == FromInt(2)
precip_tolerance == FromInt(1)
wind_tolerance == FromInt(5)

\* The score of a stored prediction against a stored observed value.
ScoreOf(pred, obs, tol) ==
    _calculate_accuracy_score(FromInt(Get(pred)), FromInt(Get(obs)), tol)

\* precip_score and wind_score: 100.0 unless both values are present.
ScoreOr100(pred, obs, tol) ==
    IF ~IsNone(pred) /\ ~IsNone(obs) THEN ScoreOf(pred, obs, tol)
    ELSE FromInt(100)

\* The matched pairs that get an ensemble score.
EnsembleScored(matches) ==
    {pair \in matches : /\ ~IsNone(snapshots[pair[1]].temperature_ensemble)
                        /\ ~IsNone(observations[pair[2]].temperature)}

\* As OverallOf with an absent precipitation or wind value scored 0.
OverallAbsentAsZero(pair) ==
    LET s == snapshots[pair[1]]
        o == observations[pair[2]]
        or0(pred, obs, tol) ==
            IF ~IsNone(pred) /\ ~IsNone(obs) THEN ScoreOf(pred, obs, tol)
            ELSE FromInt(0)
    IN  RatDiv(RatAdd(ScoreOf(s.temperature_ensemble, o.temperature, temp_tolerance),
                      RatAdd(or0(s.precipitation_ensemble, o.precipitation,
                                 precip_tolerance),
                             or0(s.wind_speed_ensemble, o.wind_speed,
                                 wind_tolerance))),
               FromInt(3))

\* overall = (temp_score + precip_score + wind_score) / 3
OverallOf(pair) ==
    LET s == snapshots[pair[1]]
        o == observations[pair[2]]
    IN  RatDiv(RatAdd(ScoreOf(s.temperature_ensemble, o.temperature, temp_tolerance),
                      RatAdd(ScoreOr100(s.precipitation_ensemble, o.precipitation,
                                        precip_tolerance),
                             ScoreOr100(s.wind_speed_ensemble, o.wind_speed,
                                        wind_tolerance))),
               FromInt(3))

\* ensemble_scores: the overall score of every scored pair.
EnsembleScores(matches) == [pair \in EnsembleScored(matches) |-> OverallOf(pair)]

\* f"{lead}h"
LeadKey(lead) == ToString(lead) \o "h"

\* As LeadTimeScores with every scored pair under every lead hour.
LeadTimeScoresUngrouped(matches) ==
    LET scored == EnsembleScored(matches)
    IN  [lead \in {snapshots[pair[1]].lead_hours : pair \in scored} |-> scored]

\* lead_time_scores: the scored pairs of each lead hour that has one.
LeadTimeScores(matches) ==
    LET scored == EnsembleScored(matches)
    IN  [lead \in {snapshots[pair[1]].lead_hours : pair \in scored} |->
            {pair \in scored : snapshots[pair[1]].lead_hours = lead}]

\* by_lead_time
ByLeadTime(matches) ==
    LET lead_time_scores == LeadTimeScores(matches)
        ensemble_scores == EnsembleScores(matches)
    IN  [key \in {LeadKey(lead) : lead \in DOMAIN lead_time_scores} |->
            LET lead == CHOOSE l \in DOMAIN lead_time_scores : LeadKey(l) = key
            IN  Round1(Mean(lead_time_scores[lead], ensemble_scores))]

\* model_scores[model_name]["temp"]: the pairs in which the source's
\* temperature is compared.
TempPairs(matches, m) ==
    {pair \in matches :
        /\ m \in DOMAIN snapshots[pair[1]].temperature_by_model
        /\ ~IsNone(snapshots[pair[1]].temperature_by_model[m])
        /\ ~IsNone(observations[pair[2]].temperature)}

\* model_scores[model_name]["precip"]
PrecipPairs(matches, m) ==
    {pair \in TempPairs(matches, m) :
        /\ m \in DOMAIN snapshots[pair[1]].precipitation_by_model
        /\ ~IsNone(snapshots[pair[1]].precipitation_by_model[m])
        /\ ~IsNone(observations[pair[2]].precipitation)}

\* temp_acc, precip_acc and overall of a source, before rounding
TempAcc(matches, m) ==
    Mean(TempPairs(matches, m),
         [pair \in TempPairs(matches, m) |->
            ScoreOf(snapshots[pair[1]].temperature_by_model[m],
                    observations[pair[2]].temperature, temp_tolerance)])

PrecipAcc(matches, m) ==
    IF PrecipPairs(matches, m) = {} THEN FromInt(100)
    ELSE Mean(PrecipPairs(matches, m),
              [pair \in PrecipPairs(matches, m) |->
                 ScoreOf(snapshots[pair[1]].precipitation_by_model[m],
                         observations[pair[2]].precipitation, precip_tolerance)])

\* ModelAccuracy(...)
ModelAccuracy(matches, m) ==
    [model_name |-> m,
     temperature_accuracy |-> Round1(TempAcc(matches, m)),
     precipitation_accuracy |-> Round1(PrecipAcc(matches, m)),
     overall_accuracy |->
        Round1(RatDiv(RatAdd(TempAcc(matches, m), PrecipAcc(matches, m)),
                      FromInt(2))),
     sample_count |-> Cardinality(TempPairs(matches, m))]

\* As SortedDescending without the sort.
Unsorted(list) == list

\* list.sort(key=lambda x: x.overall_accuracy, reverse=True): stable, the
\* larger overall_accuracy first.
RECURSIVE SortedDescending(_)
SortedDescending(list) ==
    IF list = <<>> THEN <<>>
    ELSE LET rest == SortedDescending(Tail(list))
             x == Head(list)
             before == SelectSeq(rest, LAMBDA y :
                           ~RatLe(y.overall_accuracy, x.overall_accuracy))
             after == SelectSeq(rest, LAMBDA y :
                           RatLe(y.overall_accuracy, x.overall_accuracy))
         IN  before \o <<x>> \o after

\* model_performance: the sources of model_scores, in the order of the
\* configured sources, then sorted.
ModelPerformance(matches) ==
    LET names == SelectSeq(AllModels, LAMBDA m : TempPairs(matches, m) # {})
    IN  SortedDescending([i \in 1..Len(names) |-> ModelAccuracy(matches, names[i])])

\* AccuracyResponse(...), also the one returned "if not matches"
AccuracyResponse(matches, days) ==
    IF matches = {}
    THEN [period |-> ToString(days) \o "_days",
          ensemble_accuracy |-> FromInt(0),
          by_lead_time |-> <<>>,
          model_performance |-> <<>>]
    ELSE
    [period |-> ToString(days) \o "_days",
     ensemble_accuracy |->
        IF EnsembleScored(matches) = {} THEN FromInt(0)
        ELSE Round1(Mean(EnsembleScored(matches), EnsembleScores(matches))),
     by_lead_time |-> ByLeadTime(matches),
     model_performance |-> ModelPerformance(matches)]

\* The result of a calculate_accuracy_metrics call, with what the call
\* read: the clock and the number of rows of the two tables.
AccuracyCall(location_id, days) ==
    LET cutoff_date == now - days * MinutesPerDay
        matches == Matches(location_id, cutoff_date)
    IN  [location_id |-> location_id, days |-> days,
         cutoff_date |-> cutoff_date,
         matches |-> matches,
         ensemble_scores |-> EnsembleScores(matches),
         report |-> AccuracyResponse(matches, days),
         read |-> <<now, Len(snapshots), Len(observations)>>,
         previous |-> IF IsNone(accuracy) THEN None
                      ELSE Some([Get(accuracy) EXCEPT !.previous = None])]

\* As CalculateAccuracy would be if the call removed the observations it
\* has paired.
CalculateAccuracyConsuming(location_id, days) ==
    /\ IF IsNone(accuracy) THEN TRUE ELSE IsNone(Get(accuracy).previous)
    /\ accuracy' = Some(AccuracyCall(location_id, days))
    /\ observations' =
          SelectSeq(observations, LAMBDA o :
              \A pair \in AccuracyCall(location_id, days).matches :
                  observations[pair[2]] # o)
    /\ UNCHANGED <<now, snapshots, rec, ing, badge, pureVars, fcVars>>

\* calculate_accuracy_metrics: a query and a computation on its result;
\* the model keeps the result of the call and of the call before it.
CalculateAccuracy(location_id, days) ==
    /\ IF IsNone(accuracy) THEN TRUE ELSE IsNone(Get(accuracy).previous)
    /\ accuracy' = Some(AccuracyCall(location_id, days))
    /\ UNCHANGED <<now, snapshots, observations, rec, ing, badge, pureVars, fcVars>>

\* As BadgeText with the placeholder only for a lead hour without a key.
BadgeTextByKey(metrics, lead_hours) ==
    IF LeadKey(lead_hours) \in DOMAIN metrics.by_lead_time
    THEN ToString(metrics.by_lead_time[LeadKey(lead_hours)].n
                  \div metrics.by_lead_time[LeadKey(lead_hours)].d)
         \o "% accurate for " \o ToString(lead_hours) \o "h forecasts"
    ELSE "Collecting accuracy data..."

\* As BadgeAccuracy with 100 for a lead hour without a key.
BadgeAccuracyDefaultHundred(metrics, lead_hours) ==
    IF LeadKey(lead_hours) \in DOMAIN metrics.by_lead_time
    THEN metrics.by_lead_time[LeadKey(lead_hours)]
    ELSE FromInt(100)

\* metrics.by_lead_time.get(lead_key, 0) if metrics.by_lead_time else 0
BadgeAccuracy(metrics, lead_hours) ==
    IF LeadKey(lead_hours) \in DOMAIN metrics.by_lead_time
    THEN metrics.by_lead_time[LeadKey(lead_hours)]
    ELSE FromInt(0)

\* text: f"{int(accuracy)}% accurate for {lead_hours}h forecasts" if
\* accuracy > 0, else the placeholder
BadgeText(metrics, lead_hours) ==
    LET a == BadgeAccuracy(metrics, lead_hours)
    IN  IF a.n > 0
        THEN ToString(a.n \div a.d) \o "% accurate for "
             \o ToString(lead_hours) \o "h forecasts"
        ELSE "Collecting accuracy data..."

\* sum(m.sample_count for m in metrics.model_performance)
RECURSIVE SampleCount(_)
SampleCount(performance) ==
    IF performance = <<>> THEN 0
    ELSE Head(performance).sample_count + SampleCount(Tail(performance))

\* days=30 of the badge
BadgeDays == 30

\* get_accuracy_badge: the report of the last 30 days, reduced to one lead
\* hour.
GetAccuracyBadge(location_id, lead_hours) ==
    /\ badge = None
    /\ LET cutoff_date == now - BadgeDays * MinutesPerDay
           matches == Matches(location_id, cutoff_date)
           metrics == AccuracyResponse(matches, BadgeDays)
       IN  badge' = Some([location_id |-> location_id,
                          matches |-> matches,
                          metrics |-> metrics,
                          text |-> BadgeText(metrics, lead_hours),
                          accuracy |-> BadgeAccuracy(metrics, lead_hours),
                          sample_count |-> SampleCount(metrics.model_performance),
                          lead_hours |-> lead_hours])
    /\ UNCHANGED <<now, snapshots, observations, rec, ing, accuracy, pureVars, fcVars>>

\* datetime.utcnow() moves on between two calls.
AdvanceClock(step, last) ==
    /\ now < last
    /\ now' = now + step
    /\ UNCHANGED <<snapshots, observations, rec, ing, accuracy, badge, pureVars, fcVars>>

---------------------------------------------------------------------------
(* Inputs of the pure functions *)

\* Scalar readings a source may report.
Readings == {-4, 0, 18, 20, 22}

\* Weights a table may hold, in tenths.
WeightChoices == {10, 12}

\* WMO weather codes a source may report.
Codes == {0, 61, 80, 95}

Optional(S) == {None} \cup {Some(x) : x \in S}

\* Every dict from some of the sources to the members of S.
DictsOver(S) == UNION {[K -> S] : K \in SUBSET ModelSet}

IdleAggregator == values = <<>> /\ weights = None /\ aggregate = Pending
IdleResolver == weather_codes = <<>> /\ weather_code = Pending
IdleConfidence ==
    /\ spread = FromInt(0)
    /\ metric_type = ""
    /\ confidence = Pending
IdleScorer ==
    /\ predicted = FromInt(0)
    /\ actual = FromInt(0)
    /\ tolerance = FromInt(0)
    /\ score = Pending
\* No fetch_all_models call and no request has started.
IdleFetch == [pc |-> "idle", results |-> <<>>, model_data |-> <<>>, calls |-> 0]
IdleRequest == [pc |-> "idle"]
IdleForecast == fetch = IdleFetch /\ request = IdleRequest

IdleStore ==
    /\ IdleForecast
    /\ now = 0
    /\ snapshots = <<>>
    /\ observations = <<>>
    /\ rec = IdleRecorder
    /\ ing = [p \in Ingesters |-> IdleIngester]
    /\ accuracy = None
    /\ badge = None

---------------------------------------------------------------------------
(* SpecAggregate: _weighted_average applied to every bounded input *)

InitAggregate ==
    /\ values \in DictsOver(Optional(Readings))
    /\ weights \in Optional(DictsOver(WeightChoices))
    /\ aggregate = Pending
    /\ IdleResolver
    /\ IdleConfidence
    /\ IdleScorer
    /\ IdleStore

WeightedAverage ==
    /\ aggregate = Pending
    /\ aggregate' = Some(_weighted_average(values, weights))
    /\ UNCHANGED <<values, weights, resVars, storeVars, confVars, scoreVars,
                   fcVars>>

NextAggregate == WeightedAverage

SpecAggregate == InitAggregate /\ [][NextAggregate]_vars

---------------------------------------------------------------------------
(* SpecResolver: the categorical resolver applied to every bounded input *)

InitResolver ==
    /\ weather_codes \in DictsOver(Optional(Codes))
    /\ weather_code = Pending
    /\ IdleAggregator
    /\ IdleConfidence
    /\ IdleScorer
    /\ IdleStore

ResolveCode ==
    /\ weather_code = Pending
    /\ weather_code' = Some(ResolveWeatherCode(weather_codes))
    /\ UNCHANGED <<weather_codes, aggVars, storeVars, confVars, scoreVars,
                   fcVars>>

NextResolver == ResolveCode

SpecResolver == InitResolver /\ [][NextResolver]_vars

---------------------------------------------------------------------------
(* SpecConfidence: _calculate_confidence applied to every bounded input *)

\* Spreads from -3 to 6 in halves, and two very large ones.
Spreads ==
    {Rat(n, 2) : n \in -6..12} \cup {FromInt(4000), FromInt(-4000)}

\* The metric types of get_ensemble_forecast, and one the table does not list.
MetricTypes == DOMAIN typical_spreads \cup {"humidity"}

InitConfidence ==
    /\ spread \in Spreads
    /\ metric_type \in MetricTypes
    /\ confidence = Pending
    /\ IdleAggregator
    /\ IdleResolver
    /\ IdleScorer
    /\ IdleStore

CalculateConfidence ==
    /\ confidence = Pending
    /\ confidence' = Some(_calculate_confidence(spread, metric_type))
    /\ UNCHANGED <<spread, metric_type, aggVars, resVars, scoreVars, storeVars,
                   fcVars>>

NextConfidence == CalculateConfidence

SpecConfidence == InitConfidence /\ [][NextConfidence]_vars

---------------------------------------------------------------------------
(* SpecScore: _calculate_accuracy_score applied to every bounded input *)

\* Forecasted values from 14 to 30 in halves, and observed values.
Predictions == {Rat(n, 2) : n \in 28..60}
Actuals == {FromInt(20), Rat(45, 2)}

\* temp_tolerance, precip_tolerance and wind_tolerance
Tolerances == {FromInt(2), FromInt(1), FromInt(5)}

InitScore ==
    /\ predicted \in Predictions
    /\ actual \in Actuals
    /\ tolerance \in Tolerances
    /\ score = Pending
    /\ IdleAggregator
    /\ IdleResolver
    /\ IdleConfidence
    /\ IdleStore

CalculateAccuracyScore ==
    /\ score = Pending
    /\ score' = Some(_calculate_accuracy_score(predicted, actual, tolerance))
    /\ UNCHANGED <<predicted, actual, tolerance, aggVars, resVars, confVars,
                   storeVars, fcVars>>

NextScore == CalculateAccuracyScore

SpecScore == InitScore /\ [][NextScore]_vars

---------------------------------------------------------------------------
(* Inputs of the store operations *)

\* utcnow() when a behaviour starts: 14:30 of the first day, or the midnight
\* after it.
Clock == {870, MinutesPerDay}

\* 00:00 of the day of t, where a forecast's hourly series starts.
Midnight(t) == t - (t % MinutesPerDay)

\* Index 0 of the hourly series: the day's midnight, or the call instant.
SeriesStarts(t) == {Midnight(t), t}

PayloadKinds(start) ==
    {FullPayload(start), NullTailPayload(start), ShortPayload(start),
     NoTemperaturePayload(start), NoHourlyPayload}

\* fetch_all_models: a payload for every source that answered, at least one
\* (get_ensemble_forecast raises ValueError on none).
ModelData(start) ==
    UNION {[K -> PayloadKinds(start)] : K \in (SUBSET ModelSet) \ {{}}}

EnsembleLengths == {ShortEnsemble, EnsembleHours}

SnapshotInputs(t) ==
    {[location_id |-> l, model_data |-> md, ensemble_len |-> e] :
        l \in Locations,
        md \in UNION {ModelData(start) : start \in SeriesStarts(t)},
        e \in EnsembleLengths}

\* A forecast of one source with its full series and the full ensemble.
PlainSnapshotInputs(t) ==
    {[location_id |-> l,
      model_data |-> [m \in {weather_models[1]} |-> FullPayload(Midnight(t))],
      ensemble_len |-> EnsembleHours] : l \in Locations}

\* The target time of the first lead hour of a series that starts at the
\* first midnight, and the observation instants around it:
\* 30 minutes before, one hour after and two hours after.
FirstTarget == 60 * LEAD_HOURS_TO_STORE[1]
ObsInstants == {FirstTarget - 30, FirstTarget + 60, FirstTarget + 120}

RECURSIVE Increasing(_)
Increasing(seq) ==
    Len(seq) <= 1 \/ (seq[1] < seq[2] /\ Increasing(Tail(seq)))

\* hourly["time"] of a historical payload: increasing instants.
TimeLists ==
    {seq \in UNION {[1..n -> ObsInstants] : n \in 1..MaxObsSteps} : Increasing(seq)}

\* Two sets of readings for the same instants.
ObsVariants == {1, 2}

\* A historical payload; cut: its wind and weather-code lists are one short.
Historical(times, variant, cut) ==
    LET n == Len(times)
        m == IF cut THEN n - 1 ELSE n
    IN  Some([time |-> times,
              temperature_2m |-> [i \in 1..n |-> 10 * variant + i],
              precipitation |-> [i \in 1..n |-> variant - 1],
              wind_speed_10m |-> [i \in 1..m |-> 5 * variant + i],
              weather_code |-> [i \in 1..m |-> 60 + variant]])

Historicals ==
    {None} \cup {Historical(t, v, c) : t \in TimeLists, v \in ObsVariants,
                                        c \in BOOLEAN}

PlainHistoricals == {Historical(t, 1, FALSE) : t \in TimeLists}

InitStore ==
    /\ now \in Clock
    /\ snapshots = <<>>
    /\ observations = <<>>
    /\ rec = IdleRecorder
    /\ ing = [p \in Ingesters |-> IdleIngester]
    /\ accuracy = None
    /\ badge = None
    /\ IdleForecast
    /\ IdleAggregator
    /\ IdleResolver
    /\ IdleConfidence
    /\ IdleScorer

---------------------------------------------------------------------------
(* SpecSnapshot: one store_forecast_snapshot call on every bounded input *)

NextSnapshot ==
    \/ rec.pc = "idle" /\ \E inp \in SnapshotInputs(now) : StartSnapshot(inp)
    \/ ProcessLead
    \/ CommitSnapshot

SpecSnapshot == InitStore /\ [][NextSnapshot]_vars

---------------------------------------------------------------------------
(* SpecIngest: two concurrent fetch_and_store_observations calls *)

NextIngest ==
    \E p \in Ingesters :
        \/ \E l \in Locations, h \in Historicals : StartIngest(p, l, h, 1)
        \/ CheckAndAdd(p)
        \/ CommitIngest(p)

SpecIngest == InitStore /\ [][NextIngest]_vars

---------------------------------------------------------------------------
(* SpecIngestSeq: fetch_and_store_observations calls one after the other *)

NextIngestSeq ==
    \/ \E l \in Locations, h \in Historicals : StartIngest(1, l, h, MaxIngestCalls)
    \/ CheckAndAdd(1)
    \/ CommitIngest(1)

SpecIngestSeq == InitStore /\ [][NextIngestSeq]_vars

---------------------------------------------------------------------------
(* SpecAccuracy: a recording, an ingestion, and the report or the badge *)

\* The clock is read a week and two weeks after the first day.
ClockStep == 7 * MinutesPerDay
LastClock == 2 * ClockStep

\* days of calculate_accuracy_metrics: the least the route accepts, and the
\* default.
Days == {7, 30}

\* location_id of the accuracy routes: none, a saved location, or 0.
LocationFilters == Optional(Locations \cup {0})

\* lead_hours of the badge: the first three stored lead hours.
BadgeLeads == {LEAD_HOURS_TO_STORE[i] : i \in 1..3}

NextAccuracy ==
    \/ rec.pc = "idle" /\ \E inp \in PlainSnapshotInputs(now) : StartSnapshot(inp)
    \/ ProcessLead
    \/ CommitSnapshot
    \/ \E l \in Locations, h \in PlainHistoricals : StartIngest(1, l, h, 1)
    \/ CheckAndAdd(1)
    \/ CommitIngest(1)
    \/ AdvanceClock(ClockStep, LastClock)
    \/ accuracy = None /\ badge = None /\
            \E l \in LocationFilters, d \in Days : CalculateAccuracy(l, d)
    \/ accuracy = None /\
            \E l \in LocationFilters, lead \in BadgeLeads :
                GetAccuracyBadge(l, lead)

SpecAccuracy == InitStore /\ [][NextAccuracy]_vars


---------------------------------------------------------------------------
(* SpecReport: a recording, then an ingestion, then the report or the badge *)

\* A forecast of the first location in which every source that answered has
\* its full series; nulls: the lists of the first of them hold null, while
\* another source has readings.
ReportSnapshotInputs(t) ==
    {[location_id |-> 1,
      model_data |->
         [m \in K |-> IF nulls /\ Cardinality(K) > 1
                         /\ m = Items([k \in K |-> 0])[1]
                      THEN NullPayload(Midnight(t))
                      ELSE FullPayload(Midnight(t))],
      ensemble_len |-> EnsembleHours] :
        K \in (SUBSET ModelSet) \ {{}},
        nulls \in BOOLEAN}

\* Observation instants: 30 minutes before and one hour after the target of
\* the first lead hour, and the target of the second.
ReportInstants == {FirstTarget - 30, FirstTarget + 60, 2 * FirstTarget}

ReportTimeLists ==
    {seq \in UNION {[1..n -> ReportInstants] : n \in 1..(MaxObsSteps + 1)} :
        Increasing(seq)}

\* Readings near the forecast ones (2), far from them in temperature (1) and
\* far from them in every field (6).
ReportVariants == {1, 2, 6}

\* A historical payload whose precipitation, wind and weather-code lists
\* are one short of its time list; temperature_short: its temperature list
\* too.
HistoricalShort(times, variant, temperature_short) ==
    LET n == Len(times)
        m == n - 1
    IN  Some([time |-> times,
              temperature_2m |->
                 [i \in 1..(IF temperature_short THEN m ELSE n) |-> 10 * variant + i],
              precipitation |-> [i \in 1..m |-> variant - 1],
              wind_speed_10m |-> [i \in 1..m |-> 5 * variant + i],
              weather_code |-> [i \in 1..m |-> 60 + variant]])

ReportHistoricals ==
    {None}
    \cup {Historical(t, v, FALSE) : t \in ReportTimeLists, v \in ReportVariants}
    \cup {Historical(t, 2, TRUE) : t \in ReportTimeLists}
    \cup {HistoricalShort(t, 2, c) : t \in ReportTimeLists, c \in BOOLEAN}

NextReport ==
    \/ rec.pc = "idle" /\ \E inp \in ReportSnapshotInputs(now) : StartSnapshot(inp)
    \/ ProcessLead
    \/ CommitSnapshot
    \/ rec.pc = "done" /\ \E l \in Locations, h \in ReportHistoricals :
                              StartIngest(1, l, h, 1)
    \/ CheckAndAdd(1)
    \/ CommitIngest(1)
    \/ ing[1].pc = "done" /\ accuracy = None /\ badge = None /\
            \E l \in Optional(Locations), d \in Days : CalculateAccuracy(l, d)
    \/ ing[1].pc = "done" /\ accuracy = None /\
            \E l \in Optional(Locations), lead \in BadgeLeads :
                GetAccuracyBadge(l, lead)

SpecReport == InitStore /\ [][NextReport]_vars

---------------------------------------------------------------------------
(* OpenMeteoClient.fetch_all_models *)

\* What a fetch_forecast task ends with: the JSON object of the answer, None
\* after an httpx.HTTPError (a status error or a timeout), or an exception
\* of another kind.
Running == [kind |-> "running"]
ReturnedNone == [kind |-> "none"]
Raised == [kind |-> "raised"]
Returned(payload) == [kind |-> "dict", payload |-> payload]

FetchOutcomes(start) ==
    {Returned(p) : p \in PayloadKinds(start)} \cup {ReturnedNone, Raised}

\* tasks = [...]; asyncio.gather(*tasks, return_exceptions=True) starts
\* one task for every configured source.
StartFetchAll ==
    /\ fetch.pc = "idle"
    /\ fetch' = [pc |-> "gather",
                 results |-> [m \in ModelSet |-> Running],
                 model_data |-> <<>>,
                 calls |-> fetch.calls + 1]
    /\ UNCHANGED <<request, storeVars, pureVars>>

\* A task ends, in any order with the others.
FinishFetch(m, outcome) ==
    /\ fetch.pc = "gather"
    /\ fetch.results[m] = Running
    /\ fetch' = [fetch EXCEPT !.results[m] = outcome]
    /\ UNCHANGED <<request, storeVars, pureVars>>

\* for model, result in zip(self.models, results): the dict results, each
\* under its source.
GatheredModelData(results) ==
    [m \in {k \in DOMAIN results : results[k].kind = "dict"} |->
        results[m].payload]

\* As Gather would be with asyncio.gather(*tasks): an exception of a task
\* is raised from the call.
GatherPropagating ==
    /\ fetch.pc = "gather"
    /\ \A m \in DOMAIN fetch.results : fetch.results[m] # Running
    /\ fetch' = IF \E m \in DOMAIN fetch.results : fetch.results[m] = Raised
                THEN [fetch EXCEPT !.pc = "failed"]
                ELSE [fetch EXCEPT !.pc = "done",
                                   !.model_data = GatheredModelData(fetch.results)]
    /\ UNCHANGED <<request, storeVars, pureVars>>

\* The gather returns when every task has ended, and the mapping is built.
Gather ==
    /\ fetch.pc = "gather"
    /\ \A m \in DOMAIN fetch.results : fetch.results[m] # Running
    /\ fetch' = [fetch EXCEPT !.pc = "done",
                              !.model_data = GatheredModelData(fetch.results)]
    /\ UNCHANGED <<request, storeVars, pureVars>>

---------------------------------------------------------------------------
(* SpecFetch: one fetch_all_models call, its tasks ending in every order *)

NextFetch ==
    \/ StartFetchAll
    \/ \E m \in ModelSet :
          fetch.pc = "gather" /\
              \E outcome \in FetchOutcomes(Midnight(now)) : FinishFetch(m, outcome)
    \/ Gather

SpecFetch == InitStore /\ [][NextFetch]_vars

---------------------------------------------------------------------------
(* SpecRecord: recordings one after the other, an ingestion and a report *)

\* store_forecast_snapshot calls of a behaviour
MaxRecordings == 2

\* A forecast of one source with its full series, of two sources of which
\* the second has a short series, or a forecast with a short ensemble series.
RecordInputs(t) ==
    {[location_id |-> l, model_data |-> md, ensemble_len |-> e] :
        l \in Locations,
        md \in {[m \in {weather_models[1]} |-> FullPayload(Midnight(t))],
                [m \in {weather_models[1], weather_models[NumSources]} |->
                    IF m = weather_models[1] THEN FullPayload(Midnight(t))
                    ELSE ShortPayload(Midnight(t))]},
        e \in EnsembleLengths}

NextRecord ==
    \/ rec.pc # "loop" /\ rec.calls < MaxRecordings /\
            \E inp \in RecordInputs(now) : StartSnapshot(inp)
    \/ ProcessLead
    \/ CommitSnapshot
    \/ \E h \in PlainHistoricals : StartIngest(1, 1, h, 1)
    \/ CheckAndAdd(1)
    \/ CommitIngest(1)
    \/ accuracy = None /\ badge = None /\
            \E l \in LocationFilters : CalculateAccuracy(l, BadgeDays)
    \/ accuracy = None /\ GetAccuracyBadge(None, LEAD_HOURS_TO_STORE[1])

SpecRecord == InitStore /\ [][NextRecord]_vars

---------------------------------------------------------------------------
(* SpecRepeat: a recording, an ingestion and two accuracy reports *)

\* location_id of the repeated report: none, or the first location.
RepeatFilters == {None, Some(1)}

NextRepeat ==
    \/ rec.pc = "idle" /\ \E inp \in PlainSnapshotInputs(now) : StartSnapshot(inp)
    \/ ProcessLead
    \/ CommitSnapshot
    \/ \E h \in PlainHistoricals : StartIngest(1, 1, h, 1)
    \/ CheckAndAdd(1)
    \/ CommitIngest(1)
    \/ AdvanceClock(ClockStep, LastClock)
    \/ \E l \in RepeatFilters, d \in Days : CalculateAccuracy(l, d)

SpecRepeat == InitStore /\ [][NextRepeat]_vars

---------------------------------------------------------------------------
(* Claims about the categorical resolver (SpecResolver) *)

SetMax(S) == CHOOSE x \in S : \A y \in S : y <= x
SetMin(S) == CHOOSE x \in S : \A y \in S : x <= y

PresentCodes ==
    {Get(weather_codes[m]) : m \in {k \in DOMAIN weather_codes : ~IsNone(weather_codes[k])}}

Occurrences(c) == Cardinality({m \in DOMAIN weather_codes : weather_codes[m] = Some(c)})

MostFrequent ==
    {c \in PresentCodes : \A o \in PresentCodes : Occurrences(c) >= Occurrences(o)}

\* C1: the resolved weather code is the most frequent code among the present
\* values and, when several codes tie for most frequent, the numerically
\* largest of the tied codes.
C1_ModeLargestOnTie ==
    (weather_code # Pending /\ PresentCodes # {})
        => Get(weather_code) = SetMax(MostFrequent)

---------------------------------------------------------------------------
(* Claims about _weighted_average (SpecAggregate) *)

PresentSources == {m \in DOMAIN values : ~IsNone(values[m])}
PresentReadings == {Get(values[m]) : m \in PresentSources}

Zero == [n |-> 0, d |-> 1]

C9_EmptyGivesZero ==
    (aggregate # Pending /\ PresentSources = {})
        => Get(aggregate) = [mean |-> Zero, spreadSq |-> Zero]

\* The call has returned for a mapping that lists sources, all of them
\* absent, under a caller-supplied weight table.
C9_Witness ==
    /\ aggregate # Pending
    /\ DOMAIN values # {}
    /\ PresentSources = {}
    /\ weights # None
    /\ DOMAIN Get(weights) # {}
    /\ Get(aggregate).mean = Zero

\* The weight table a call uses: the configured one when none is passed.
TableOf(wts) == IF IsNone(wts) THEN default_model_weights ELSE Get(wts)

\* A source's weight, in tenths: 1.0 when the table does not list it.
WeightOf(table, m) == IF m \in DOMAIN table THEN table[m] ELSE DefaultWeight

RECURSIVE SumFn(_)
SumFn(f) ==
    IF DOMAIN f = {} THEN 0
    ELSE LET x == CHOOSE x \in DOMAIN f : TRUE
         IN  f[x] + SumFn([y \in DOMAIN f \ {x} |-> f[y]])

\* mean = sum(weight * value) / sum(weight) over the present sources.
C10_Formula ==
    LET sumW == SumFn([m \in PresentSources |-> WeightOf(TableOf(weights), m)])
        sumWV == SumFn([m \in PresentSources |->
                        WeightOf(TableOf(weights), m) * Get(values[m])])
    IN  PresentSources # {}
            => Get(aggregate).mean.n * sumW = sumWV * Get(aggregate).mean.d

\* Adding a source with an absent value, or removing one, changes nothing.
C10_AbsentIgnored ==
    \A m \in ModelSet :
        /\ m \notin DOMAIN values
            => _weighted_average(
                   [k \in DOMAIN values \cup {m} |->
                        IF k = m THEN None ELSE values[k]], weights)
               = Get(aggregate)
        /\ (m \in DOMAIN values /\ IsNone(values[m]))
            => _weighted_average(
                   [k \in DOMAIN values \ {m} |-> values[k]], weights)
               = Get(aggregate)

\* Factors the whole weight table is multiplied by.
ScaleFactors == {2, 3}

\* Multiplying every weight of the table by c leaves the mean unchanged.
C10_ScaleInvariant ==
    \A c \in ScaleFactors :
        LET table == TableOf(weights)
            scaled == [m \in DOMAIN table |-> c * table[m]]
        IN  RatEq(_weighted_average(values, Some(scaled)).mean,
                  Get(aggregate).mean)

PresentCount == Cardinality(PresentSources)
PresentSum == SumFn([m \in PresentSources |-> Get(values[m])])
PresentSumSq == SumFn([m \in PresentSources |-> Get(values[m]) * Get(values[m])])

\* The present sources report 18, 20 and 22, one each.
Reports18_20_22 ==
    /\ PresentCount = 3
    /\ PresentReadings = {18, 20, 22}

---------------------------------------------------------------------------
(* Claims about _calculate_confidence (SpecConfidence) *)

\* 0 <= c <= 100
WithinPercent(c) ==
    /\ ~FloatLt(c, Num(FromInt(0)))
    /\ ~FloatLt(Num(FromInt(100)), c)

\* C12: the returned confidence is in [0, 100] for every spread and every
\* metric type, and for a metric type the table does not list it is the
\* confidence of the typical spread 3.0.
C12_ConfidenceWithinPercent ==
    confidence # Pending =>
        /\ WithinPercent(Get(confidence))
        /\ metric_type \notin {"temperature", "precipitation", "wind_speed"} =>
              Get(confidence)
                = PyMax(Num(FromInt(0)),
                        PyMin(Num(FromInt(100)),
                              HundredExp(RatDiv(RatSub(FromInt(0), spread),
                                                FromInt(3)))))

\* The call has returned 100 for a negative spread and an unlisted type.
C12_Witness ==
    /\ confidence # Pending
    /\ spread.n < 0
    /\ metric_type = "humidity"
    /\ Get(confidence) = Num(FromInt(100))

\* C13: the confidence is exactly 100 at spread 0, and no larger spread of
\* the same metric type has a larger confidence.
C13_ConfidenceNonIncreasing ==
    confidence # Pending =>
        /\ spread.n = 0 => Get(confidence) = Num(FromInt(100))
        /\ \A s2 \in Spreads :
              RatLe(spread, s2) =>
                  ~FloatLt(Get(confidence), _calculate_confidence(s2, metric_type))

\* The call has returned for a positive spread a confidence strictly above
\* the one of a larger spread.
C13_Witness ==
    /\ confidence # Pending
    /\ spread.n > 0
    /\ \E s2 \in Spreads :
          /\ RatLe(spread, s2)
          /\ FloatLt(_calculate_confidence(s2, metric_type), Get(confidence))
          /\ Get(confidence).kind = "exp"

---------------------------------------------------------------------------
(* Claims about _calculate_accuracy_score (SpecScore) *)

\* error = |predicted - actual|
Error == RatAbs(RatSub(predicted, actual))

\* C14: the score is the score of the error alone (the same for the error
\* against an observed 0), lies in [0, 100], and is 100 at error 0, 75 at
\* the tolerance, 25 at twice the tolerance and 0 from three times the
\* tolerance on.
C14_ScoreOfError ==
    score # Pending =>
        /\ Get(score) = _calculate_accuracy_score(Error, FromInt(0), tolerance)
        /\ Get(score) = _calculate_accuracy_score(actual, predicted, tolerance)
        /\ RatLe(FromInt(0), Get(score)) /\ RatLe(Get(score), FromInt(100))
        /\ Error.n = 0 => Get(score) = FromInt(100)
        /\ Error = tolerance => Get(score) = FromInt(75)
        /\ Error = RatMul(tolerance, FromInt(2)) => Get(score) = FromInt(25)
        /\ RatLe(RatMul(tolerance, FromInt(3)), Error) => Get(score) = FromInt(0)

\* Predicted 30 against an observed 20 with tolerance 2 has scored 0.
C14_Witness ==
    /\ score # Pending
    /\ predicted = FromInt(30) /\ actual = FromInt(20) /\ tolerance = FromInt(2)
    /\ Get(score) = FromInt(0)

\* The error is in the zone (0.5 x tolerance, tolerance].
InGoodZone ==
    /\ ~RatLe(Error, RatDiv(tolerance, FromInt(2)))
    /\ RatLe(Error, tolerance)

\* C15: for an error in (0.5 x tolerance, tolerance] the score lies on the
\* line from 100 at half the tolerance to 75 at the tolerance, so that the
\* curve has no jump at half the tolerance.
C15_GoodZoneFromHundred ==
    (score # Pending /\ InGoodZone) =>
        Get(score) = Zone2FromHundred(Error, tolerance)

---------------------------------------------------------------------------
(* Claims about the matching query, the ingestion and the recording *)

\* C2: when calculate_accuracy_metrics runs, a snapshot its query selects
\* and an observation are a matched pair if and only if they have the same
\* location_id and their target_time and observation_time are strictly
\* less than one hour (60 minutes) apart.
C2_MatchedIffWithinOneHour ==
    [][(IsNone(accuracy) /\ ~IsNone(accuracy')) =>
        LET q == Get(accuracy')
        IN  \A i \in 1..Len(snapshots), j \in 1..Len(observations) :
                Selected(snapshots[i], q.location_id, q.cutoff_date) =>
                    (<<i, j>> \in q.matches <=>
                        /\ snapshots[i].location_id = observations[j].location_id
                        /\ Abs(snapshots[i].target_time
                               - observations[j].observation_time) < 60)]_vars

\* No two rows of the observations table have the same
\* (location_id, observation_time) key.
UniqueKeys(rows) ==
    \A i, j \in 1..Len(rows) :
        (/\ rows[i].location_id = rows[j].location_id
         /\ rows[i].observation_time = rows[j].observation_time) => i = j

\* C3: in every interleaving of two concurrent fetch_and_store_observations
\* calls the store holds at most one Observation row for a
\* (location_id, observation_time) key.
C3_AtMostOneRowPerKey == UniqueKeys(observations)

\* C4: in a sequence of non-overlapping fetch_and_store_observations calls
\* every step leaves the durable rows as they are and only appends rows,
\* no key ever has a second row, and no call fails.
C4_DuplicateIsNoOp ==
    [][/\ Len(observations') >= Len(observations)
       /\ SubSeq(observations', 1, Len(observations)) = observations
       /\ UniqueKeys(observations')
       /\ ing'[1].pc # "failed"]_vars

\* A call has ended normally whose payload held, for a key that has a row,
\* a temperature other than the one the row holds.
C4_Witness ==
    /\ ing[1].pc = "done"
    /\ ~IsNone(ing[1].historical)
    /\ LET hourly == Get(ing[1].historical)
       IN  \E i \in 1..Len(hourly.time) :
               \E j \in Existing(observations, ing[1].location_id, hourly.time[i]) :
                   observations[j].temperature # Some(hourly.temperature_2m[i])

\* The lead hours whose index exists in the reference hourly time series
\* and in the ensemble hourly series of a call.
InRange(call, lead) ==
    /\ lead < HourlyTimesLen(Reference(call.model_data))
    /\ lead < call.ensemble_len

RECURSIVE RowsOf(_, _)
RowsOf(call, leads) ==
    IF leads = <<>> THEN <<>>
    ELSE (IF InRange(call, Head(leads))
          THEN <<SnapshotRow(call, Head(leads))>> ELSE <<>>)
         \o RowsOf(call, Tail(leads))

\* C5: the durable snapshot rows of a store_forecast_snapshot call are all
\* the rows it intended once it has ended normally, and none before that
\* and after it has ended by an error.
C5_SnapshotAtomic ==
    \/ rec.pc # "done" /\ snapshots = <<>>
    \/ rec.pc = "done" /\ snapshots = RowsOf(rec, LEAD_HOURS_TO_STORE)

\* The call has ended by an error at its fourth lead hour, after the rows of
\* three lead hours were added to its session.
C5_Witness ==
    /\ rec.pc = "failed"
    /\ rec.k = 4
    /\ \A k \in 1..3 : InRange(rec, LEAD_HOURS_TO_STORE[k])

\* C6: a store_forecast_snapshot call ends without an error, with exactly
\* one row for every lead hour whose index exists in both series, carrying
\* the ensemble values of that index, and with no row for any other lead hour.
C6_OneRowPerLeadInRange ==
    rec.pc \in {"done", "failed"} =>
        /\ rec.pc = "done"
        /\ \A k \in 1..Len(LEAD_HOURS_TO_STORE) :
              LET lead == LEAD_HOURS_TO_STORE[k]
                  rows == {i \in 1..Len(snapshots) : snapshots[i].lead_hours = lead}
              IN  IF InRange(rec, lead)
                  THEN /\ Cardinality(rows) = 1
                       /\ \A i \in rows :
                            /\ snapshots[i].temperature_ensemble
                                 = Some(EnsembleReading("temperature", lead))
                            /\ snapshots[i].precipitation_ensemble
                                 = Some(EnsembleReading("precipitation", lead))
                            /\ snapshots[i].wind_speed_ensemble
                                 = Some(EnsembleReading("wind_speed", lead))
                            /\ snapshots[i].confidence_score
                                 = Some(EnsembleReading("confidence", lead))
                  ELSE rows = {}

\* C7: every durable ForecastSnapshot row has
\* target_time = snapshot_time + lead_hours hours.
C7_TargetIsSnapshotPlusLead ==
    \A i \in 1..Len(snapshots) :
        snapshots[i].target_time
            = snapshots[i].snapshot_time + 60 * snapshots[i].lead_hours

---------------------------------------------------------------------------
(* Claims about the accuracy report and the badge (SpecReport) *)

\* The score of one field of a pair: that of the scoring function when both
\* sides are present, 100 otherwise.
FieldScore(pred, obs, tol) ==
    IF IsNone(pred) \/ IsNone(obs) THEN FromInt(100)
    ELSE _calculate_accuracy_score(FromInt(Get(pred)), FromInt(Get(obs)),
                                   FromInt(tol))

NearestTenth(v, x) ==
    /\ (10 * v.n) % v.d = 0
    /\ RatLe(RatAbs(RatSub(v, x)), Rat(1, 20))

\* The scored pairs of a report whose snapshot has a lead hour.
ScoredAt(a, lead) ==
    {pair \in DOMAIN a.ensemble_scores : snapshots[pair[1]].lead_hours = lead}

\* The lead hours of the scored pairs of a report.
ScoredLeads(a) == {snapshots[pair[1]].lead_hours : pair \in DOMAIN a.ensemble_scores}

\* C17 as stated: by_lead_time has exactly one key "{lead}h" for each lead
\* hour with a scored pair, its value is the mean of the overall scores of
\* the pairs of that lead hour, and ensemble_accuracy is the mean over all
\* scored pairs.
C17_AsStated ==
    ~IsNone(accuracy) =>
        LET a == Get(accuracy)
        IN  /\ DOMAIN a.report.by_lead_time = {LeadKey(l) : l \in ScoredLeads(a)}
            /\ Cardinality(DOMAIN a.report.by_lead_time) = Cardinality(ScoredLeads(a))
            /\ \A l \in ScoredLeads(a) :
                  a.report.by_lead_time[LeadKey(l)]
                     = Mean(ScoredAt(a, l), a.ensemble_scores)
            /\ DOMAIN a.ensemble_scores # {} =>
                  a.report.ensemble_accuracy
                     = Mean(DOMAIN a.ensemble_scores, a.ensemble_scores)

\* C17: by_lead_time has exactly one key "{lead}h" for each lead hour with
\* a scored pair, its value is the mean of the overall scores of precisely
\* the pairs of that lead hour, rounded to one decimal, and
\* ensemble_accuracy is the mean over all scored pairs, rounded to one
\* decimal, and 0 when no pair is scored.
C17_ByLeadTimeIsRoundedMean ==
    ~IsNone(accuracy) =>
        LET a == Get(accuracy)
        IN  /\ DOMAIN a.report.by_lead_time = {LeadKey(l) : l \in ScoredLeads(a)}
            /\ Cardinality(DOMAIN a.report.by_lead_time) = Cardinality(ScoredLeads(a))
            /\ \A l \in ScoredLeads(a) :
                  NearestTenth(a.report.by_lead_time[LeadKey(l)],
                               Mean(ScoredAt(a, l), a.ensemble_scores))
            /\ IF DOMAIN a.ensemble_scores = {}
               THEN a.report.ensemble_accuracy = FromInt(0)
               ELSE NearestTenth(a.report.ensemble_accuracy,
                                 Mean(DOMAIN a.ensemble_scores, a.ensemble_scores))

\* A report covers two lead hours; one of them has two scored pairs with
\* different overall scores, and the mean of the other differs from it.
C17_Witness ==
    /\ ~IsNone(accuracy)
    /\ LET a == Get(accuracy)
       IN  \E l, k \in ScoredLeads(a) :
              /\ l # k
              /\ \E p, q \in ScoredAt(a, l) : a.ensemble_scores[p] # a.ensemble_scores[q]
              /\ a.report.by_lead_time[LeadKey(l)] # a.report.by_lead_time[LeadKey(k)]

\* The temperature comparisons made for a source in a report, each with its
\* score.
SourceTempScores(a, m) ==
    [pair \in {p \in a.matches :
                  /\ m \in DOMAIN snapshots[p[1]].temperature_by_model
                  /\ ~IsNone(snapshots[p[1]].temperature_by_model[m])
                  /\ ~IsNone(observations[p[2]].temperature)} |->
        FieldScore(snapshots[pair[1]].temperature_by_model[m],
                   observations[pair[2]].temperature, 2)]

\* The precipitation comparisons made for a source in a report, each with
\* its score.
SourcePrecipScores(a, m) ==
    [pair \in {p \in DOMAIN SourceTempScores(a, m) :
                  /\ m \in DOMAIN snapshots[p[1]].precipitation_by_model
                  /\ ~IsNone(snapshots[p[1]].precipitation_by_model[m])
                  /\ ~IsNone(observations[p[2]].precipitation)} |->
        FieldScore(snapshots[pair[1]].precipitation_by_model[m],
                   observations[pair[2]].precipitation, 1)]

\* The mean of a source's mean temperature score and its mean precipitation
\* score, the latter 100 without a precipitation comparison.
SourceOverall(a, m) ==
    LET temp == SourceTempScores(a, m)
        precip == SourcePrecipScores(a, m)
    IN  RatDiv(RatAdd(Mean(DOMAIN temp, temp),
                      IF DOMAIN precip = {} THEN FromInt(100)
                      ELSE Mean(DOMAIN precip, precip)),
               FromInt(2))

\* The sources with a temperature comparison in a report.
ComparedSources(a) ==
    {m \in {AllModels[i] : i \in 1..Len(AllModels)} :
        DOMAIN SourceTempScores(a, m) # {}}

\* What C18 states apart from the value of overall_accuracy: the summary
\* lists each source with a temperature comparison once and no other, with
\* the number of its temperature comparisons as sample_count, and no entry
\* has a larger overall_accuracy than an entry before it.
SummaryListsAndRanks(a) ==
    LET perf == a.report.model_performance
    IN  /\ {perf[i].model_name : i \in 1..Len(perf)} = ComparedSources(a)
        /\ Len(perf) = Cardinality(ComparedSources(a))
        /\ \A i \in 1..Len(perf) :
              /\ perf[i].sample_count
                   = Cardinality(DOMAIN SourceTempScores(a, perf[i].model_name))
              /\ perf[i].sample_count >= 1
        /\ \A i, j \in 1..Len(perf) :
              i < j => RatLe(perf[j].overall_accuracy, perf[i].overall_accuracy)

\* C18 as stated: each listed source's overall accuracy is the mean of its
\* mean temperature score and its mean precipitation score (100 without a
\* precipitation comparison), its sample_count is the number of its
\* temperature comparisons and at least 1, and the list is ordered by
\* overall accuracy from highest to lowest.
C18_AsStated ==
    ~IsNone(accuracy) =>
        LET a == Get(accuracy)
            perf == a.report.model_performance
        IN  /\ SummaryListsAndRanks(a)
            /\ \A i \in 1..Len(perf) :
                  perf[i].overall_accuracy = SourceOverall(a, perf[i].model_name)

\* C18: each listed source's overall accuracy is the mean of its mean
\* temperature score and its mean precipitation score (100 without a
\* precipitation comparison), rounded to one decimal; its sample_count is
\* the number of its temperature comparisons and at least 1; the list is
\* ordered by that rounded overall accuracy from highest to lowest.
C18_SourceSummaryRounded ==
    ~IsNone(accuracy) =>
        LET a == Get(accuracy)
            perf == a.report.model_performance
        IN  /\ SummaryListsAndRanks(a)
            /\ \A i \in 1..Len(perf) :
                  NearestTenth(perf[i].overall_accuracy,
                               SourceOverall(a, perf[i].model_name))

\* A report lists two sources in another order than the configured one,
\* with different overall accuracies, one of them with two temperature
\* comparisons, and leaves out a source of the snapshot that had no
\* temperature.
C18_Witness ==
    /\ ~IsNone(accuracy)
    /\ LET a == Get(accuracy)
           perf == a.report.model_performance
       IN  /\ Len(perf) >= 2
           /\ perf[1].model_name # Items([m \in ComparedSources(a) |-> 0])[1]
           /\ perf[1].overall_accuracy # perf[2].overall_accuracy
           /\ perf[1].sample_count = 2
           /\ \E p \in a.matches :
                 DOMAIN snapshots[p[1]].temperature_by_model # ComparedSources(a)

---------------------------------------------------------------------------
(* Claims about the report without a matched pair (SpecAccuracy) *)

\* C19: a report computed when no snapshot-observation pair matches is the
\* empty report (ensemble_accuracy 0, no lead hour, no source, period
\* "{days}_days"), and a badge computed then has accuracy 0 and
\* sample_count 0.
C19_EmptyReport ==
    /\ (~IsNone(accuracy) /\ Get(accuracy).matches = {}) =>
          /\ Get(accuracy).report.period = ToString(Get(accuracy).days) \o "_days"
          /\ Get(accuracy).report.ensemble_accuracy = FromInt(0)
          /\ DOMAIN Get(accuracy).report.by_lead_time = {}
          /\ Len(Get(accuracy).report.model_performance) = 0
    /\ (~IsNone(badge) /\ Get(badge).matches = {}) =>
          /\ Get(badge).accuracy = FromInt(0)
          /\ Get(badge).sample_count = 0

\* A badge is computed for a location whose snapshot and observation rows
\* pair with nothing: there is a snapshot row and an observation row of the
\* location, and no observation lies in the tolerance window of a snapshot.
C19_Witness ==
    /\ ~IsNone(badge)
    /\ Get(badge).matches = {}
    /\ ~IsNone(Get(badge).location_id)
    /\ \E i \in 1..Len(snapshots) :
          snapshots[i].location_id = Get(Get(badge).location_id)
    /\ \E j \in 1..Len(observations) :
          observations[j].location_id = Get(Get(badge).location_id)

---------------------------------------------------------------------------
(* Claims about the badge (SpecReport) *)

\* The pairs of a badge's report that are scored and whose snapshot has the
\* badge's lead hour.
BadgeSamples(b) ==
    {pair \in b.matches :
        /\ snapshots[pair[1]].lead_hours = b.lead_hours
        /\ ~IsNone(snapshots[pair[1]].temperature_ensemble)
        /\ ~IsNone(observations[pair[2]].temperature)}

\* C20: the badge text is the placeholder exactly when the requested lead
\* hour has no scored pair in the report; with a scored pair, also when
\* every such pair scored 0, it is the sentence "N% accurate for {lead}h
\* forecasts" with N the whole percent of the lead hour's value.
C20_PlaceholderIffNoSamples ==
    ~IsNone(badge) =>
        LET b == Get(badge)
        IN  IF BadgeSamples(b) = {}
            THEN b.text = "Collecting accuracy data..."
            ELSE b.text = ToString(b.accuracy.n \div b.accuracy.d)
                            \o "% accurate for " \o ToString(b.lead_hours)
                            \o "h forecasts"

---------------------------------------------------------------------------
(* Claims about the selection of the report's pairs (SpecAccuracy) *)

\* A snapshot and an observation the join pairs.
Joined(i, j) ==
    /\ snapshots[i].location_id = observations[j].location_id
    /\ WithinTolerance(snapshots[i].target_time, observations[j].observation_time)

\* C28: when calculate_accuracy_metrics runs, a joined pair is one of the
\* report's pairs if and only if its snapshot_time is at or after now minus
\* the day window and, with a location filter (any id, 0 included), the
\* snapshot's location_id equals the filter.
C28_ContributesIffSelected ==
    [][(IsNone(accuracy) /\ ~IsNone(accuracy')) =>
        LET q == Get(accuracy')
        IN  \A i \in 1..Len(snapshots), j \in 1..Len(observations) :
                Joined(i, j) =>
                    (<<i, j>> \in q.matches <=>
                        /\ snapshots[i].snapshot_time >= now - q.days * MinutesPerDay
                        /\ ~IsNone(q.location_id) =>
                              snapshots[i].location_id = Get(q.location_id))]_vars

---------------------------------------------------------------------------
(* Claims about repeated recordings (SpecRecord) *)

\* C26: no step of a recording, an ingestion, a report or a badge removes
\* or changes a durable snapshot row, and the commit of a recording appends
\* the rows of its in-range lead hours after the rows already durable, also
\* when the same rows are durable already.
C26_SnapshotsAppendOnly ==
    [][/\ Len(snapshots') >= Len(snapshots)
       /\ SubSeq(snapshots', 1, Len(snapshots)) = snapshots
       /\ (rec.pc = "loop" /\ rec'.pc = "done") =>
             snapshots' = snapshots \o RowsOf(rec, LEAD_HOURS_TO_STORE)]_vars

\* The same forecast has been recorded twice at the same instant: the
\* second recording has ended, and the durable rows are the rows of the
\* first recording followed by rows equal to them.
C26_Witness ==
    /\ rec.calls = 2
    /\ rec.pc = "done"
    /\ RowsOf(rec, LEAD_HOURS_TO_STORE) # <<>>
    /\ snapshots = RowsOf(rec, LEAD_HOURS_TO_STORE) \o RowsOf(rec, LEAD_HOURS_TO_STORE)

---------------------------------------------------------------------------
(* Claims about the recorded lead hours (SpecSnapshot) *)

\* len(hourly_times[:168]): the length of the ensemble hourly series that
\* get_ensemble_forecast builds from a request's payloads.
BuiltEnsembleLen(model_data) ==
    IF HourlyTimesLen(Reference(model_data)) < EnsembleHours
    THEN HourlyTimesLen(Reference(model_data))
    ELSE EnsembleHours

\* Every source of a call has an hourly series longer than 168 steps, with
\* all three fields.
AllSeriesLong(call) ==
    \A m \in DOMAIN call.model_data :
        /\ HourlyTimesLen(call.model_data[m]) > EnsembleHours
        /\ \A f \in HourlyFields :
              FieldLen(Get(call.model_data[m].hourly), f) > EnsembleHours

\* C29: a call whose sources all have an hourly series longer than 168
\* steps and whose ensemble series is the one built from the same payloads
\* ends with one row for every lead hour of the fixed set, 168 included.
C29_EveryLeadRecorded ==
    (/\ rec.pc \in {"done", "failed"}
     /\ AllSeriesLong(rec)
     /\ rec.ensemble_len = BuiltEnsembleLen(rec.model_data)) =>
        /\ rec.pc = "done"
        /\ \A k \in 1..Len(LEAD_HOURS_TO_STORE) :
              Cardinality({i \in 1..Len(snapshots) :
                  snapshots[i].lead_hours = LEAD_HOURS_TO_STORE[k]}) = 1

\* What the per-source map of a row holds for a source at a lead hour when
\* a missing field or a series that ends before the lead hour counts as
\* absent.
ValueOrAbsent(m, hourly, field, lead) ==
    IF lead >= FieldLen(hourly, field) THEN None
    ELSE FieldAt(m, hourly, field, lead)

\* C30: a call never fails because of one source: it ends normally, and for
\* every in-range lead hour it has written a row whose per-source maps hold
\* each source's value, or an absent value where the source lacks the field
\* or its series ends before the lead hour.
C30_NeverFailsForOneSource ==
    rec.pc \in {"done", "failed"} =>
        /\ rec.pc = "done"
        /\ \A k \in 1..Len(LEAD_HOURS_TO_STORE) :
              LET lead == LEAD_HOURS_TO_STORE[k]
              IN  InRange(rec, lead) =>
                    \E i \in 1..Len(snapshots) :
                        /\ snapshots[i].lead_hours = lead
                        /\ \A m \in WithHourly(rec.model_data) :
                              LET hourly == Get(rec.model_data[m].hourly)
                              IN  /\ snapshots[i].temperature_by_model[m]
                                       = ValueOrAbsent(m, hourly, "temperature_2m", lead)
                                  /\ snapshots[i].precipitation_by_model[m]
                                       = ValueOrAbsent(m, hourly, "precipitation", lead)
                                  /\ snapshots[i].wind_speed_by_model[m]
                                       = ValueOrAbsent(m, hourly, "wind_speed_10m", lead)

---------------------------------------------------------------------------
(* Claims about repeated reports (SpecRepeat) *)

---------------------------------------------------------------------------
(* Claims about fetch_all_models (SpecFetch) *)

\* C24: a fetch_all_models call never fails, and when it has ended its
\* mapping holds exactly the sources whose task returned a JSON object,
\* each with the object of its own task.
C24_FetchesAreIsolated ==
    /\ fetch.pc # "failed"
    /\ fetch.pc = "done" =>
          /\ DOMAIN fetch.model_data
               = {m \in ModelSet : fetch.results[m].kind = "dict"}
          /\ \A m \in DOMAIN fetch.model_data :
                fetch.model_data[m] = fetch.results[m].payload

\* A call has ended in which one task raised, one returned None and one
\* returned an object.
C24_Witness ==
    /\ fetch.pc = "done"
    /\ \E m \in ModelSet : fetch.results[m] = Raised
    /\ \E m \in ModelSet : fetch.results[m] = ReturnedNone
    /\ \E m \in ModelSet : fetch.results[m].kind = "dict"

---------------------------------------------------------------------------
(* Forecast payloads: the hourly and daily sections read by
   get_ensemble_forecast and get_model_comparison *)

\* "forecast_days": 10 of fetch_forecast: the days of a "daily" section.
ForecastDays == 10

\* The "daily" section of a payload holds
\*   time: the length of its "time" list and of its field lists,
\*   horizon: the day index from which its field lists hold null,
\*   probability: what its precipitation_probability_max list holds, 0 for
\*     every day ("zero") or a forecast above 0 ("reported").
Daily(horizon, probability) ==
    Some([time |-> ForecastDays, horizon |-> horizon,
          probability |-> probability])

WithDaily(payload, daily) == [hourly |-> payload.hourly, daily |-> daily]

\* The JSON objects a fetch_forecast task returns to a forecast request.
ForecastPayloads(start) ==
    {WithDaily(FullPayload(start), Daily(ForecastDays, "zero")),
     WithDaily(NullTailPayload(start), Daily(ShortHorizon \div 24, "reported"))}

\* The JSON objects a fetch_forecast task returns to a comparison request:
\* also a shorter series, and an object without an "hourly" section.
ComparisonPayloads(start) ==
    ForecastPayloads(start)
        \cup {WithDaily(ShortPayload(start), Daily(ForecastDays, "zero")),
              WithDaily(NoHourlyPayload, None)}

\* What a fetch_forecast task of a request ends with.
RequestOutcomes(op, start) ==
    {Returned(p) : p \in IF op = "forecast" THEN ForecastPayloads(start)
                         ELSE ComparisonPayloads(start)}
        \cup {ReturnedNone, Raised}

\* The precipitation probability a source reports for an hour: showers in
\* the afternoon of every day, none in the rest of the day.
HourlyProbability(m, i) ==
    LET src == CHOOSE j \in 1..Len(AllModels) : AllModels[j] = m
    IN  IF i % 24 \in {14, 15} THEN 30 + 10 * src + i \div 24 ELSE 0

\* The reading a source reports for a field of a day.
DailyReading(m, daily, field, d) ==
    LET src == CHOOSE j \in 1..Len(AllModels) : AllModels[j] = m
    IN  CASE field = "temperature_2m_max" ->
                SourceReading(m, "temperature_2m", 24 * d)
          [] field = "precipitation_sum" ->
                SourceReading(m, "precipitation", 24 * d)
          [] field = "wind_speed_10m_max" ->
                SourceReading(m, "wind_speed_10m", 24 * d)
          [] field = "precipitation_probability_max" ->
                IF daily.probability = "zero" THEN 0 ELSE 20 + 10 * src + d

\* data[data_type][field][index] of one source: None without the section
\* or the field, for an index past the list (IndexError) and for a null.
ExtractValue(m, payload, data_type, field, index) ==
    IF data_type = "hourly"
    THEN IF IsNone(payload.hourly) THEN None
         ELSE LET h == Get(payload.hourly)
                  len == IF field = "precipitation_probability" THEN h.time
                         ELSE h[field]
              IN  IF IsNone(len) THEN None
                  ELSE IF index >= Get(len) THEN None
                  ELSE IF index >= h.horizon THEN None
                  ELSE IF field = "precipitation_probability"
                  THEN Some(HourlyProbability(m, index))
                  ELSE Some(SourceReading(m, field, index))
    ELSE IF IsNone(payload.daily) THEN None
         ELSE LET daily == Get(payload.daily)
              IN  IF index >= daily.time THEN None
                  ELSE IF index >= daily.horizon THEN None
                  ELSE Some(DailyReading(m, daily, field, index))

\* _extract_model_values: a value or None for every source of model_data.
_extract_model_values(model_data, data_type, field, index) ==
    [m \in DOMAIN model_data |->
        ExtractValue(m, model_data[m], data_type, field, index)]

---------------------------------------------------------------------------
(* EnsembleCalculator.get_ensemble_forecast *)

Min(a, b) == IF a <= b THEN a ELSE b

\* max(...) of a non-empty set of numbers
MaxOf(S) == CHOOSE x \in S : \A y \in S : RatLe(y, x)

\* round(x, 0) of a number x >= 0: to the nearest whole number, a half to
\* the even one.
Round0(x) ==
    LET units == x.n \div x.d
        rest == Rat(x.n - units * x.d, x.d)
        up == \/ ~RatLe(rest, Rat(1, 2))
              \/ rest = Rat(1, 2) /\ units % 2 = 1
    IN  FromInt(IF up THEN units + 1 ELSE units)

\* _calculate_confidence(spread, type) for the spread whose square is sq.
\* np.std is a square root, so the float is held by the square of its
\* exponent: ExpRoot(q) is the number 100 * e^(-sqrt(q)), for q > 0.
ExpRoot(q) == [kind |-> "exp_root", x |-> q]

ConfidenceOfSpreadSq(sq, type) ==
    LET typical == FromInt(Typical(type))
        q == RatDiv(sq, RatMul(typical, typical))
    IN  IF sq.n = 0 THEN _calculate_confidence(FromInt(0), type)
        ELSE IF RatLe(FromInt(ExpUnderflow * ExpUnderflow), q)
        THEN Num(FromInt(0))
        ELSE ExpRoot(q)

\* (a + b + c) / 3 of three floats: a number when the three are numbers,
\* and held as the mean of its three terms otherwise.
MeanOfThree(a, b, c) ==
    IF a.kind = "num" /\ b.kind = "num" /\ c.kind = "num"
    THEN Num(RatDiv(RatAdd(a.x, RatAdd(b.x, c.x)), FromInt(3)))
    ELSE [kind |-> "mean3", of |-> <<a, b, c>>]

\* round(confidence, 0).  A mean that holds a term 100 * e^(-sqrt(q)) with
\* q > 0 rational is no whole number (e^(-sqrt(q)) is transcendental), so
\* its rounding is another number than the mean.
RoundFloat0(a) ==
    IF a.kind = "num" THEN Num(Round0(a.x))
    ELSE [kind |-> "round0", of |-> a]

\* As OverallConfidence, from the temperature spread alone.
OverallConfidenceOfTemperature(temp_sq, precip_sq, wind_sq) ==
    ConfidenceOfSpreadSq(temp_sq, "temperature")

\* confidence = (temp_conf + precip_conf + wind_conf) / 3
OverallConfidence(temp_sq, precip_sq, wind_sq) ==
    MeanOfThree(ConfidenceOfSpreadSq(temp_sq, "temperature"),
                ConfidenceOfSpreadSq(precip_sq, "precipitation"),
                ConfidenceOfSpreadSq(wind_sq, "wind_speed"))

\* The spread (squared) and the average of a field over the sources.
Aggregated(model_data, data_type, field, index) ==
    _weighted_average(_extract_model_values(model_data, data_type, field, index),
                      None)

\* One HourlyForecast: the fields the daily loop and the claims read.
HourlyForecast(model_data, i) ==
    LET temp == Aggregated(model_data, "hourly", "temperature_2m", i)
        precip == Aggregated(model_data, "hourly", "precipitation", i)
        precip_prob == Aggregated(model_data, "hourly", "precipitation_probability", i)
        wind == Aggregated(model_data, "hourly", "wind_speed_10m", i)
    IN  [precipitation_probability |-> Round0(precip_prob.mean),
         confidence |-> RoundFloat0(OverallConfidence(temp.spreadSq,
                                        precip.spreadSq, wind.spreadSq))]

\* for i, time_str in enumerate(hourly_times[:168])
HourlyForecasts(model_data) ==
    LET hourly_times == HourlyTimesLen(Reference(model_data))
    IN  [k \in 1..Min(hourly_times, EnsembleHours) |->
            HourlyForecast(model_data, k - 1)]

\* The FALLBACK block: a daily probability of 0 is replaced by the highest
\* hourly probability of the day, when hourly_forecasts reaches that day.
FallbackProbability(precip_prob_avg, i, hourly_forecasts) ==
    LET day_start_hour == i * 24
        day_end_hour == Min(day_start_hour + 24, Len(hourly_forecasts))
    IN  IF precip_prob_avg.n # 0 THEN precip_prob_avg
        ELSE IF day_start_hour < Len(hourly_forecasts)
        THEN MaxOf({hourly_forecasts[h + 1].precipitation_probability :
                        h \in day_start_hour..(day_end_hour - 1)})
        ELSE precip_prob_avg

\* One DailyForecast: its precipitation probability and its confidence.
DailyForecast(model_data, i, hourly_forecasts) ==
    LET temp_max == Aggregated(model_data, "daily", "temperature_2m_max", i)
        precip == Aggregated(model_data, "daily", "precipitation_sum", i)
        precip_prob == Aggregated(model_data, "daily", "precipitation_probability_max", i)
        wind == Aggregated(model_data, "daily", "wind_speed_10m_max", i)
    IN  [precipitation_probability_max |->
            Round0(FallbackProbability(precip_prob.mean, i, hourly_forecasts)),
         confidence |-> RoundFloat0(OverallConfidence(temp_max.spreadSq,
                                        precip.spreadSq, wind.spreadSq))]

\* len(reference_model.get("daily", {}).get("time", []))
DailyTimesLen(payload) ==
    IF IsNone(payload.daily) THEN 0 ELSE Get(payload.daily).time

\* for i, time_str in enumerate(daily_times)
DailyForecasts(model_data, hourly_forecasts) ==
    [k \in 1..DailyTimesLen(Reference(model_data)) |->
        DailyForecast(model_data, k - 1, hourly_forecasts)]

\* The EnsembleForecastResponse of a non-empty model_data.
EnsembleForecastResponse(model_data) ==
    LET hourly_forecasts == HourlyForecasts(model_data)
    IN  [hourly |-> hourly_forecasts,
         daily |-> DailyForecasts(model_data, hourly_forecasts)]

---------------------------------------------------------------------------
(* EnsembleCalculator.get_model_comparison *)

\* hourly.get(field, [0])[hour_offset], for an index inside the list
ComparisonValue(m, hourly, field, hour_offset) ==
    IF IsNone(hourly[field]) THEN Some(0)
    ELSE IF hour_offset >= hourly.horizon THEN None
    ELSE Some(SourceReading(m, field, hour_offset))

\* Whether hourly.get(field, [0])[hour_offset] raises IndexError for a
\* source: the field list is shorter than the offset asks for.
ComparisonRaises(model_data, hour_offset) ==
    \E m \in WithHourly(model_data) : \E f \in HourlyFields :
        LET hourly == Get(model_data[m].hourly)
        IN  hour_offset >= (IF IsNone(hourly[f]) THEN 1 ELSE Get(hourly[f]))

\* temps, precips or winds: the value of a field under every listed source.
ComparedValues(model_data, field, hour_offset) ==
    [m \in WithHourly(model_data) |->
        ComparisonValue(m, Get(model_data[m].hourly), field, hour_offset)]

\* The returned dict: "models" and "ensemble".
ModelComparison(model_data, hour_offset) ==
    [models |-> [m \in WithHourly(model_data) |->
                    [f \in HourlyFields |->
                        ComparisonValue(m, Get(model_data[m].hourly), f,
                                        hour_offset)]],
     ensemble |-> [f \in HourlyFields |->
                    Round1(_weighted_average(
                        ComparedValues(model_data, f, hour_offset), None).mean)]]

---------------------------------------------------------------------------
(* The routes GET /forecast and GET /forecast/models *)

\* str(e) of the exceptions a request ends with.
NoModelData == <<"No model data available">>
HourOffsetExceeds(hour_offset, hours) ==
    <<"hour_offset", hour_offset, "exceeds available forecast hours", hours>>
ListIndexOutOfRange == <<"list index out of range">>
ExpectingValue == <<"Expecting value">>
ClientNotStarted == <<"OpenMeteoClient not started. Call startup() first.">>

ValueError(message) == [type |-> "ValueError", message |-> message]
OtherError(type, message) == [type |-> type, message |-> message]

\* The exception classes "except ValueError" catches: json.JSONDecodeError
\* is a subclass of ValueError.
ValueErrors == {"ValueError", "JSONDecodeError"}

\* The exceptions fetch_air_quality lets through: response.json() on a
\* body that is no JSON, and the client property before startup().
AirQualityErrors ==
    {OtherError("JSONDecodeError", ExpectingValue),
     OtherError("RuntimeError", ClientNotStarted)}

RaisedWith(error) == [kind |-> "raised", error |-> error]

\* The air quality task of a comparison request: there is none.
NotFetched == [kind |-> "unused"]

\* What fetch_air_quality ends with: a JSON object, None after an
\* httpx.HTTPError, or an exception of another kind.
AirQualityOutcomes ==
    {Returned([current |-> None]), ReturnedNone}
        \cup {RaisedWith(e) : e \in AirQualityErrors}

\* hour_offset: int = Query(0, ge=0, le=168)
HourOffsets == {0, 24, 120, EnsembleHours}

\* The answer of a route: the body on 200, HTTPException(503) for a
\* ValueError and HTTPException(500) for any other exception.
Answer(req, outcome) ==
    [pc |-> "done", op |-> req.op, hour_offset |-> req.hour_offset,
     air_quality |-> req.air_quality,
     status |-> IF outcome.kind = "return" THEN 200
                ELSE IF outcome.error.type \in ValueErrors THEN 503 ELSE 500,
     error |-> IF outcome.kind = "return" THEN None ELSE Some(outcome.error),
     body |-> IF outcome.kind = "return" THEN Some(outcome.body) ELSE None]

Return(body) == [kind |-> "return", body |-> body]
Raise(error) == [kind |-> "raise", error |-> error]

\* fetch_all_models(latitude, longitude) is called: its tasks start.
FetchStarted ==
    [pc |-> "gather", results |-> [m \in ModelSet |-> Running],
     model_data |-> <<>>, calls |-> fetch.calls + 1]

\* GET /forecast: both tasks of asyncio.gather(model_data_task,
\* air_quality_task) start.
StartForecast ==
    /\ request.pc = "idle"
    /\ fetch.pc = "idle"
    /\ request' = [pc |-> "gather", op |-> "forecast", hour_offset |-> 0,
                   air_quality |-> Running]
    /\ fetch' = FetchStarted
    /\ UNCHANGED <<storeVars, pureVars>>

\* The air quality task ends.
FinishAirQuality(outcome) ==
    /\ request.pc = "gather"
    /\ request.air_quality = Running
    /\ request' = [request EXCEPT !.air_quality = outcome]
    /\ UNCHANGED <<fetch, storeVars, pureVars>>

\* The air quality task raised: asyncio.gather raises its exception at
\* once, whatever the source tasks do, and the route answers 503 for a
\* ValueError and 500 otherwise.
FailForecast ==
    /\ request.pc = "gather"
    /\ request.op = "forecast"
    /\ request.air_quality.kind = "raised"
    /\ request' = Answer(request, Raise(request.air_quality.error))
    /\ UNCHANGED <<fetch, storeVars, pureVars>>

\* get_ensemble_forecast after the gather returned.
GetEnsembleForecast(model_data) ==
    IF DOMAIN model_data = {} THEN Raise(ValueError(NoModelData))
    ELSE Return(EnsembleForecastResponse(model_data))

\* Both tasks returned: the forecast is built and the route answers.
ServeForecast ==
    /\ request.pc = "gather"
    /\ request.op = "forecast"
    /\ request.air_quality.kind \in {"dict", "none"}
    /\ fetch.pc = "done"
    /\ request' = Answer(request, GetEnsembleForecast(fetch.model_data))
    /\ UNCHANGED <<fetch, storeVars, pureVars>>

\* GET /forecast/models: fetch_all_models is awaited.
StartComparison(hour_offset) ==
    /\ request.pc = "idle"
    /\ fetch.pc = "idle"
    /\ request' = [pc |-> "gather", op |-> "comparison",
                   hour_offset |-> hour_offset, air_quality |-> NotFetched]
    /\ fetch' = FetchStarted
    /\ UNCHANGED <<storeVars, pureVars>>

\* get_model_comparison after fetch_all_models returned.
GetModelComparison(model_data, hour_offset) ==
    IF DOMAIN model_data = {} THEN Raise(ValueError(NoModelData))
    ELSE LET hourly_times == HourlyTimesLen(Reference(model_data))
         IN  IF hour_offset >= hourly_times
             THEN Raise(ValueError(HourOffsetExceeds(hour_offset, hourly_times)))
             ELSE IF ComparisonRaises(model_data, hour_offset)
             THEN Raise(OtherError("IndexError", ListIndexOutOfRange))
             ELSE Return(ModelComparison(model_data, hour_offset))

\* The fetch returned: the comparison is built and the route answers.
ServeComparison ==
    /\ request.pc = "gather"
    /\ request.op = "comparison"
    /\ fetch.pc = "done"
    /\ request' = Answer(request,
                         GetModelComparison(fetch.model_data, request.hour_offset))
    /\ UNCHANGED <<fetch, storeVars, pureVars>>

---------------------------------------------------------------------------
(* SpecRequest: one request to GET /forecast or GET /forecast/models, its
   tasks ending in every order *)

NextRequest ==
    \/ StartForecast
    \/ \E hour_offset \in HourOffsets : StartComparison(hour_offset)
    \/ \E m \in ModelSet :
          fetch.pc = "gather" /\
              \E outcome \in RequestOutcomes(request.op, Midnight(now)) :
                  FinishFetch(m, outcome)
    \/ Gather
    \/ \E outcome \in AirQualityOutcomes : FinishAirQuality(outcome)
    \/ FailForecast
    \/ ServeForecast
    \/ ServeComparison

\* The request arrives at a midnight.
InitRequest == InitStore /\ now = MinutesPerDay

SpecRequest == InitRequest /\ [][NextRequest]_vars

---------------------------------------------------------------------------
(* Claims about the forecast and comparison requests (SpecRequest) *)

\* A request has been answered and its fetch_all_models call has returned.
Answered(op) ==
    /\ request.pc = "done"
    /\ request.op = op
    /\ fetch.pc = "done"

\* A forecast request has been answered with a forecast.
ForecastServed == Answered("forecast") /\ request.status = 200

\* The three per-metric confidences of a point, each from the spread of
\* its own field over the sources.
PointConfidences(data_type, fields, index) ==
    [k \in 1..3 |->
        ConfidenceOfSpreadSq(
            Aggregated(fetch.model_data, data_type, fields[k], index).spreadSq,
            <<"temperature", "precipitation", "wind_speed">>[k])]

HourlyConfidenceFields == <<"temperature_2m", "precipitation", "wind_speed_10m">>
DailyConfidenceFields ==
    <<"temperature_2m_max", "precipitation_sum", "wind_speed_10m_max">>

\* Whether a float of the confidence computation lies in [0, 100].
RECURSIVE ReportedWithinPercent(_)
ReportedWithinPercent(a) ==
    CASE a.kind = "num" -> RatLe(FromInt(0), a.x) /\ RatLe(a.x, FromInt(100))
      [] a.kind = "exp_root" -> a.x.n > 0
      [] a.kind = "mean3" -> \A k \in 1..3 : ReportedWithinPercent(a.of[k])
      [] a.kind = "round0" -> ReportedWithinPercent(a.of)
      [] OTHER -> FALSE

\* No source has a value for any of the three fields of a point.
AllAbsent(data_type, fields, index) ==
    \A k \in 1..3 : \A m \in DOMAIN fetch.model_data :
        IsNone(ExtractValue(m, fetch.model_data[m], data_type, fields[k], index))

\* The points of a served forecast: the section, its fields, the index of
\* the point and the confidence the response reports for it.
ForecastPoints ==
    {<<"hourly", HourlyConfidenceFields, k - 1,
       Get(request.body).hourly[k].confidence>> :
          k \in 1..Len(Get(request.body).hourly)}
    \cup {<<"daily", DailyConfidenceFields, k - 1,
            Get(request.body).daily[k].confidence>> :
          k \in 1..Len(Get(request.body).daily)}

\* C21 as stated: the reported confidence of every hourly and daily point
\* is the mean of its three per-metric confidences.
C21_AsStated ==
    ForecastServed =>
        \A pt \in ForecastPoints :
            LET c == PointConfidences(pt[1], pt[2], pt[3])
            IN  pt[4] = MeanOfThree(c[1], c[2], c[3])

\* C21: the reported confidence of every hourly and daily point is the
\* unweighted mean of its three per-metric confidences, each from the
\* point's own spread, rounded to a whole number; it lies in [0, 100], and
\* it is 100 where no source has a value.
C21_ConfidenceIsRoundedMeanOfThree ==
    ForecastServed =>
        \A pt \in ForecastPoints :
            LET c == PointConfidences(pt[1], pt[2], pt[3])
            IN  /\ pt[4] = RoundFloat0(MeanOfThree(c[1], c[2], c[3]))
                /\ ReportedWithinPercent(pt[4])
                /\ AllAbsent(pt[1], pt[2], pt[3]) => pt[4] = Num(FromInt(100))

\* A forecast was served that has an hourly and a daily point where the
\* sources disagree (the mean is rounded) and an hourly and a daily point
\* where no source has a value.
C21_Witness ==
    /\ ForecastServed
    /\ \A section \in {"hourly", "daily"} :
          /\ \E pt \in ForecastPoints :
                pt[1] = section /\ pt[4].kind = "round0"
          /\ \E pt \in ForecastPoints :
                /\ pt[1] = section
                /\ AllAbsent(pt[1], pt[2], pt[3])
                /\ pt[4] = Num(FromInt(100))

\* The hourly ensemble precipitation probability of a time index, from
\* the hourly lists of the sources.
HourlyEnsembleProbability(index) ==
    Round0(Aggregated(fetch.model_data, "hourly", "precipitation_probability",
                      index).mean)

\* C22: for every day of a served forecast, a daily precipitation
\* probability aggregated to exactly 0 is reported as the highest hourly
\* ensemble probability of the 24 hours of that day, and one that is not 0
\* is reported as aggregated (to the whole number).
C22_DailyProbabilityFallback ==
    ForecastServed =>
        \A k \in 1..Len(Get(request.body).daily) :
            LET aggregated == Aggregated(fetch.model_data, "daily",
                                  "precipitation_probability_max", k - 1).mean
                reported == Get(request.body).daily[k].precipitation_probability_max
            IN  IF aggregated.n = 0
                THEN reported = MaxOf({HourlyEnsembleProbability(h) :
                                        h \in (24 * (k - 1))..(24 * k - 1)})
                ELSE reported = Round0(aggregated)

\* C23: a request whose fetch returned no payload for any source ends with
\* the "No model data available" error, answered 503 without a body after
\* a single fetch; with a payload of some source it does not end with that
\* error.
C23_NoModelDataIsTerminal ==
    (request.pc = "done" /\ fetch.pc = "done") =>
        IF DOMAIN fetch.model_data = {}
        THEN /\ request.error = Some(ValueError(NoModelData))
             /\ request.status = 503
             /\ IsNone(request.body)
             /\ fetch.calls = 1
        ELSE request.error # Some(ValueError(NoModelData))

\* C25: a comparison whose hour_offset is at or past the fetched hourly
\* steps ends with the ValueError that names the horizon and no body; one
\* inside the horizon is answered with the comparison, whichever sources
\* reported and however long their series are.
C25_ComparisonInsideHorizon ==
    (Answered("comparison") /\ DOMAIN fetch.model_data # {}) =>
        LET hours == HourlyTimesLen(Reference(fetch.model_data))
        IN  IF request.hour_offset >= hours
            THEN /\ request.error
                      = Some(ValueError(HourOffsetExceeds(request.hour_offset, hours)))
                 /\ IsNone(request.body)
            ELSE /\ request.status = 200
                 /\ IsNone(request.error)
                 /\ ~IsNone(request.body)

=============================================================================
